---- MODULE Spec2Model ----
(***************************************************************************)
(* Triage re-evaluation pipeline of the ER command center backend:         *)
(* app/services/triage.py (engine + rule-based fallback) and the routes    *)
(* that call it (app/api/routes/patients.py, vitals.py, prescriptions.py,  *)
(* triage.py).                                                             *)
(*                                                                         *)
(* Text is modelled at word granularity: a complaint is a sequence of      *)
(* words, str.lower() maps every word to its lower-case form and the       *)
(* Python test `kw in text` is containment of the keyword's words as a     *)
(* contiguous run.  A stored timestamp is the sequence of the character    *)
(* codes that follow the (common) date part, so Python's string ordering   *)
(* of timestamps is the lexicographic ordering of these sequences.         *)
(***************************************************************************)
EXTENDS Integers, Sequences, FiniteSets, TLC

VARIABLES patients, vitals, prescriptions, evals, alerts, clock, resp, eng, stamps, inflight,
          beds, registry, reset_tokens

vars == <<patients, vitals, prescriptions, evals, alerts, clock, resp, eng, stamps, inflight,
          beds, registry, reset_tokens>>

dbvars == <<patients, vitals, prescriptions, evals, alerts, clock, resp>>

(* the bed tables, the registrations in progress and the password-reset tokens *)
side == <<beds, registry, reset_tokens>>

(* the state of the engine-only, timestamp-only and concurrent-request specifications *)
aux == <<eng, stamps, inflight, side>>

(***************************************************************************)
(* Bounds of the model                                                     *)
(***************************************************************************)
MaxWords == 2

MaxTick == 3

UsecPerSec == 2

(* Python None for integer-valued fields, and for text-valued fields *)
None == -1

NoneStr == "None"

(***************************************************************************)
(* Text                                                                    *)
(***************************************************************************)
Vocabulary == {"chest", "Chest", "PAIN", "pain", "stroke", "severe", "fever", "cough", "itchy"}

(* str.lower() on one word *)
LowerWord(w) ==
    CASE w = "Chest" -> "chest"
      [] w = "PAIN" -> "pain"
      [] OTHER -> w

(* complaint.lower() if complaint else "" *)
Lower(text) == [i \in 1..Len(text) |-> LowerWord(text[i])]

(* Python: kw in text *)
Contains(text, kw) ==
    \E i \in 1..(Len(text) - Len(kw) + 1) : SubSeq(text, i, i + Len(kw) - 1) = kw

AnyWordIn(text, kws) == \E kw \in kws : Contains(text, kw)

CriticalKeywords ==
    { <<"chest", "pain">>, <<"heart", "attack">>, <<"stroke">>, <<"unconscious">>,
      <<"not", "breathing">>, <<"cardiac", "arrest">> }

EmergentKeywords ==
    { <<"severe", "bleeding">>, <<"head", "injury">>, <<"difficulty", "breathing">>,
      <<"severe", "pain">>, <<"fracture">> }

UrgentKeywords ==
    { <<"fever">>, <<"vomiting">>, <<"abdominal", "pain">>, <<"infection">>,
      <<"moderate", "pain">> }

NonUrgentKeywords ==
    { <<"cold">>, <<"cough">>, <<"minor", "cut">>, <<"rash">>, <<"follow-up">>,
      <<"prescription", "refill">> }

(***************************************************************************)
(* Values of a vitals dict entry.  A value is None, a Python int/float     *)
(* (kind "num"), the text of a number (kind "str": what str(Decimal) and   *)
(* a validated request string give) or a text that float() rejects         *)
(* (kind "text").                                                          *)
(***************************************************************************)
NoValue == [kind |-> "none", num |-> 0]

NumV(n) == [kind |-> "num", num |-> n]

StrV(n) == [kind |-> "str", num |-> n]

TextV == [kind |-> "text", num |-> 0]

(* Python truthiness: None, 0 and 0.0 are falsy, every non-empty string is truthy *)
Truthy(v) ==
    CASE v.kind = "none" -> FALSE
      [] v.kind = "num" -> v.num # 0
      [] OTHER -> TRUE

(* float(v) raises ValueError exactly on a non-numeric text *)
FloatRaises(v) == v.kind = "text"

Float(v) == v.num

(* str(x) if x else None *)
StrIfTruthy(v) == IF Truthy(v) THEN StrV(v.num) ELSE NoValue

(***************************************************************************)
(* TriageService                                                           *)
(***************************************************************************)
GROQ_MODEL == "llama-3.3-70b-versatile"

LabelOf(p) ==
    CASE p = 1 -> "L1 - Critical"
      [] p = 2 -> "L2 - Emergent"
      [] p = 3 -> "L3 - Urgent"
      [] p = 4 -> "L4 - Non-Urgent"
      [] OTHER -> NoneStr

ColorOf(p) ==
    CASE p = 1 -> "red"
      [] p = 2 -> "orange"
      [] p = 3 -> "yellow"
      [] p = 4 -> "green"
      [] OTHER -> NoneStr

(* the keyword cascade without complaint.lower() *)
KeywordPriorityCaseSensitive(complaint) ==
    IF AnyWordIn(complaint, CriticalKeywords) THEN 1
    ELSE IF AnyWordIn(complaint, EmergentKeywords) THEN 2
    ELSE IF AnyWordIn(complaint, UrgentKeywords) THEN 3
    ELSE IF AnyWordIn(complaint, NonUrgentKeywords) THEN 4
    ELSE 3

(* the keyword cascade of _mock_triage, lines 150-175 *)
KeywordPriority(complaint) ==
    LET complaint_lower == Lower(complaint)
    IN  IF AnyWordIn(complaint_lower, CriticalKeywords) THEN 1
        ELSE IF AnyWordIn(complaint_lower, EmergentKeywords) THEN 2
        ELSE IF AnyWordIn(complaint_lower, UrgentKeywords) THEN 3
        ELSE IF AnyWordIn(complaint_lower, NonUrgentKeywords) THEN 4
        ELSE 3

(* `if vitals:` -- a dict is truthy when it has at least one key; the routes
   pass None (hasDict FALSE), {} (hasDict TRUE, empty) or a dict with keys *)
NoVitals == [given |-> FALSE, empty |-> TRUE, spo2 |-> NoValue]

EmptyVitals == [given |-> TRUE, empty |-> TRUE, spo2 |-> NoValue]

VitalsDict(spo2) == [given |-> TRUE, empty |-> FALSE, spo2 |-> spo2]

VitalsTruthy(v) == v.given /\ ~v.empty

Spo2Override(v) ==
    VitalsTruthy(v) /\ Truthy(v.spo2) /\ ~FloatRaises(v.spo2) /\ Float(v.spo2) < 90

MockRaises(v) == VitalsTruthy(v) /\ Truthy(v.spo2) /\ FloatRaises(v.spo2)

TriageResult(p, label, color, model, confidence) ==
    [raised |-> FALSE, priority |-> p, priority_label |-> label,
     priority_color |-> color, groq_model |-> model, confidence |-> confidence]

Raised ==
    [raised |-> TRUE, priority |-> None, priority_label |-> NoneStr,
     priority_color |-> NoneStr, groq_model |-> NoneStr, confidence |-> None]

(* confidence is kept in hundredths: 0.75 -> 75 *)
MockConfidence == 75

_mock_triage(complaint, v) ==
    IF MockRaises(v) THEN Raised
    ELSE LET priority == IF Spo2Override(v) THEN 1 ELSE KeywordPriority(complaint)
         IN  TriageResult(priority, LabelOf(priority), ColorOf(priority), "mock", MockConfidence)

(***************************************************************************)
(* What the LLM call does: there is no client (no API key), the call       *)
(* raises or times out, the content is not JSON, the content is JSON but   *)
(* not an object, or it is a JSON object whose fields the code copies      *)
(* without validation.                                                     *)
(***************************************************************************)
LLMObjects ==
    { [priority |-> 2, priority_label |-> "L2 - Emergent", priority_color |-> "orange", confidence |-> 90],
      [priority |-> 4, priority_label |-> "L4 - Non-Urgent", priority_color |-> "green", confidence |-> 60],
      [priority |-> None, priority_label |-> NoneStr, priority_color |-> NoneStr, confidence |-> None],
      [priority |-> 5, priority_label |-> "L5 - Stable", priority_color |-> "blue", confidence |-> 80] }

LLMFailures == {"no_api_key", "raises", "timeout", "bad_json", "not_an_object"}

NoObject == [priority |-> None, priority_label |-> NoneStr, priority_color |-> NoneStr, confidence |-> None]

LLMBehaviours == [kind : LLMFailures, obj : {NoObject}] \cup [kind : {"ok"}, obj : LLMObjects]

LLMFail(k) == [kind |-> k, obj |-> NoObject]

LLMOk(o) == [kind |-> "ok", obj |-> o]

(* run_triage without its except clause: a failed call reaches the caller *)
run_triage_unguarded(llm, complaint, v) ==
    IF llm.kind = "no_api_key" THEN _mock_triage(complaint, v)
    ELSE IF llm.kind = "ok"
         THEN TriageResult(llm.obj.priority, llm.obj.priority_label,
                           llm.obj.priority_color, GROQ_MODEL, llm.obj.confidence)
         ELSE Raised

run_triage(llm, complaint, v) ==
    IF llm.kind = "no_api_key" THEN _mock_triage(complaint, v)
    ELSE IF llm.kind = "ok"
         THEN TriageResult(llm.obj.priority, llm.obj.priority_label,
                           llm.obj.priority_color, GROQ_MODEL, llm.obj.confidence)
         ELSE _mock_triage(complaint, v)

(***************************************************************************)
(* Engine-only specification: the inputs are drawn in Init, the actions    *)
(* apply _mock_triage and run_triage.                                      *)
(***************************************************************************)
RECURSIVE TextsUpTo(_)
TextsUpTo(n) ==
    IF n = 0 THEN { <<>> }
    ELSE LET shorter == TextsUpTo(n - 1)
         IN  shorter \cup { Append(t, w) : t \in { s \in shorter : Len(s) = n - 1 }, w \in Vocabulary }

Spo2Numbers == {0, 85, 89, 90, 98}

(* the vitals records that reach the engine: quick triage passes validated
   ints, registration passes request strings it has already put through
   float(), the re-triage routes pass str(Decimal) or None *)
EngineSpo2 == {NoValue} \cup { NumV(n) : n \in Spo2Numbers } \cup { StrV(n) : n \in Spo2Numbers }

EngineVitals == {NoVitals, EmptyVitals} \cup { VitalsDict(s) : s \in EngineSpo2 }

(* no concurrent requests in progress *)
InflightIdle == [expire_on_commit |-> TRUE, req |-> <<>>]

(* no timestamp call in progress *)
StampsIdle ==
    [pc |-> "idle", a |-> <<>>, b |-> <<>>, raised |-> FALSE, value |-> 0, winner |-> <<>>,
     again |-> <<>>]

(* no bed, no bed assignment *)
BedsIdle == [bed |-> <<>>, patient_bed |-> <<>>, assignments |-> <<>>]

(* no registration in progress *)
RegistryIdle == [patient_ids |-> <<>>, req |-> <<>>]

(* no password-reset token stored *)
ResetTokensIdle == [rows |-> <<>>, mailbox |-> <<>>]

EngIdle == [pc |-> "idle", complaint |-> <<>>, vitals |-> NoVitals, llm |-> LLMFail("no_api_key"), result |-> Raised]

EngInit ==
    /\ eng \in [pc : {"input"}, complaint : TextsUpTo(MaxWords), vitals : EngineVitals,
                llm : LLMBehaviours, result : {Raised}]
    /\ patients = <<>>
    /\ vitals = <<>>
    /\ prescriptions = <<>>
    /\ evals = <<>>
    /\ alerts = <<>>
    /\ clock = 0
    /\ resp = 0
    /\ stamps = StampsIdle
    /\ inflight = InflightIdle
    /\ beds = BedsIdle
    /\ registry = RegistryIdle
    /\ reset_tokens = ResetTokensIdle

MockTriageCall ==
    /\ eng.pc = "input"
    /\ eng' = [eng EXCEPT !.pc = "mock", !.result = _mock_triage(eng.complaint, eng.vitals)]
    /\ UNCHANGED <<dbvars, stamps, inflight, side>>

RunTriageCall ==
    /\ eng.pc = "input"
    /\ eng' = [eng EXCEPT !.pc = "run", !.result = run_triage(eng.llm, eng.complaint, eng.vitals)]
    /\ UNCHANGED <<dbvars, stamps, inflight, side>>

(***************************************************************************)
(* Stored timestamps.  A tick of the clock is an instant; Sec and Usec are *)
(* its second and microsecond.  datetime.isoformat() omits the fraction    *)
(* when the microsecond is 0.  Character codes are the ASCII codes.        *)
(***************************************************************************)
Sec(t) == t \div UsecPerSec

Usec(t) == t % UsecPerSec

ChSpace == 32

ChDot == 46

ChT == 84

ChZ == 90

Digit(d) == 48 + d

Fraction(t) == IF Usec(t) = 0 THEN <<>> ELSE <<ChDot, Digit(Usec(t))>>

(* datetime.utcnow().isoformat() + "Z" *)
IsoZ(t) == <<ChT, Digit(Sec(t))>> \o Fraction(t) \o <<ChZ>>

(* a datetime object bound to a String column: the text form of the
   datetime, date and time separated by a space, no zone suffix *)
DatetimeText(t) == <<ChSpace, Digit(Sec(t))>> \o Fraction(t)

(* Python's < on str *)
RECURSIVE StrLess(_, _)
StrLess(a, b) ==
    IF b = <<>> THEN FALSE
    ELSE IF a = <<>> THEN TRUE
    ELSE IF Head(a) # Head(b) THEN Head(a) < Head(b)
    ELSE StrLess(Tail(a), Tail(b))

(* further characters of a stored timestamp text *)
ChPlus == 43

ChMinus == 45

ChColon == 58

ChLetter == 97

IsDigit(c) == c \in 48..57

Positions(s, c) == { i \in 1..Len(s) : s[i] = c }

Last(S) == CHOOSE i \in S : \A j \in S : j <= i

First(S) == CHOOSE i \in S : \A j \in S : i <= j

(* Python's int() on a field of the offset: ValueError unless decimal digits *)
IntRaises(f) == f = <<>> \/ \E i \in 1..Len(f) : ~IsDigit(f[i])

RECURSIVE IntOf(_)
IntOf(f) == IF f = <<>> THEN 0 ELSE 10 * IntOf(SubSeq(f, 1, Len(f) - 1)) + (f[Len(f)] - 48)

(* an hour and a minute of offset, in ticks *)
TicksPerMinute == 60 * UsecPerSec

TicksPerHour == 60 * TicksPerMinute

(* datetime.min: before every instant a text can denote *)
DatetimeMin == -1000000

(* `if ' ' in s and 'T' not in s: s = s.replace(' ', 'T', 1)` *)
NormaliseSeparator(s) ==
    IF Positions(s, ChSpace) # {} /\ Positions(s, ChT) = {}
    THEN [s EXCEPT ![First(Positions(s, ChSpace))] = ChT]
    ELSE s

(* the branches that take the offset off the text: a final Z, the last '+',
   or the last '-' when the text has three of them (one after the date) *)
SplitOffset(s) ==
    IF s[Len(s)] = ChZ
    THEN [body |-> SubSeq(s, 1, Len(s) - 1), sign |-> 0, tz_part |-> <<>>]
    ELSE IF Positions(s, ChPlus) # {}
    THEN LET plus_pos == Last(Positions(s, ChPlus))
         IN  [body |-> SubSeq(s, 1, plus_pos - 1), sign |-> 1,
              tz_part |-> SubSeq(s, plus_pos + 1, Len(s))]
    ELSE IF Cardinality(Positions(s, ChMinus)) = 1
    THEN LET minus_pos == Last(Positions(s, ChMinus))
         IN  [body |-> SubSeq(s, 1, minus_pos - 1), sign |-> -1,
              tz_part |-> SubSeq(s, minus_pos + 1, Len(s))]
    ELSE [body |-> s, sign |-> 0, tz_part |-> <<>>]

(* tz_part.split(':'): the first field, whether there is a second, and it *)
TzParts(tz_part) ==
    LET colons == Positions(tz_part, ChColon)
    IN  IF colons = {} THEN [n |-> 1, hours |-> tz_part, minutes |-> <<>>]
        ELSE LET c == First(colons)
                 rest == SubSeq(tz_part, c + 1, Len(tz_part))
                 more == Positions(rest, ChColon)
             IN  [n |-> 2, hours |-> SubSeq(tz_part, 1, c - 1),
                  minutes |-> IF more = {} THEN rest ELSE SubSeq(rest, 1, First(more) - 1)]

(* datetime.fromisoformat on what is left: T, seconds, optional fraction *)
FromIsoRaises(body) ==
    ~ \/ (Len(body) = 2 /\ body[1] = ChT /\ IsDigit(body[2]))
      \/ (Len(body) = 4 /\ body[1] = ChT /\ IsDigit(body[2]) /\ body[3] = ChDot /\ IsDigit(body[4]))

FromIso(body) ==
    (body[2] - 48) * UsecPerSec + (IF Len(body) = 4 THEN body[4] - 48 ELSE 0)

(* _parse_ts raises: the two int() calls on the offset's fields stand before
   the try block, so their ValueError leaves the function *)
_parse_ts_raises(s) ==
    /\ s # <<>>
    /\ LET split == SplitOffset(NormaliseSeparator(s))
           parts == TzParts(split.tz_part)
       IN  /\ split.sign # 0
           /\ \/ (parts.hours # <<>> /\ IntRaises(parts.hours))
              \/ (parts.n > 1 /\ IntRaises(parts.minutes))

(* _parse_ts where it returns: the instant as a tick, datetime.min for None,
   the empty text (written <<>>) and what fromisoformat refuses *)
_parse_ts(s) ==
    IF s = <<>> THEN DatetimeMin
    ELSE LET split == SplitOffset(NormaliseSeparator(s))
             parts == TzParts(split.tz_part)
             tz_offset_hours == IF parts.hours # <<>> THEN IntOf(parts.hours) ELSE 0
             tz_offset_minutes == IF parts.n > 1 THEN IntOf(parts.minutes) ELSE 0
         IN  IF FromIsoRaises(split.body) THEN DatetimeMin
             ELSE FromIso(split.body)
                    - split.sign * (tz_offset_hours * TicksPerHour + tz_offset_minutes * TicksPerMinute)

(***************************************************************************)
(* Database rows                                                           *)
(***************************************************************************)
PatientIds == {1}

AbsentPatient ==
    [status |-> "absent", priority |-> None, priority_label |-> NoneStr,
     priority_color |-> NoneStr, complaint |-> <<>>, history |-> NoneStr, phone |-> NoneStr]

Registered(p) == patients[p].status # "absent"

(* PatientVitals row *)
VitalsRow(pid, spo2, ts) ==
    [patient_id |-> pid, spo2 |-> spo2, recorded_at |-> ts, created_at |-> ts]

(* prescribed_at = Column(String, server_default="now()"): no handler sets
   the column, so every row holds the default's text, "now()" *)
NowText == <<110, 111, 119, 40, 41>>

(* Prescription row *)
RxRow(pid, name) ==
    [patient_id |-> pid, medication_name |-> name, status |-> "active", prescribed_at |-> NowText]

(* AITriageResult row; a row inserted without groq_model gets the column default *)
GroqModelColumnDefault == "llama-3.3-70b-versatile"

EvalRow(pid, r, complaint, input_vitals, applied_at) ==
    [patient_id |-> pid, priority |-> r.priority, priority_label |-> r.priority_label,
     priority_color |-> r.priority_color, groq_model |-> r.groq_model,
     confidence |-> r.confidence, is_applied |-> TRUE, applied_at |-> applied_at,
     input_complaint |-> complaint, input_vitals |-> input_vitals]

AlertRow(pid, triggered_by, title, from, to) ==
    [patient_id |-> pid, triggered_by |-> triggered_by, title |-> title,
     fromPriority |-> from, toPriority |-> to]

(* the patient's priority fields as the routes assign them *)
ApplyResult(pat, r) ==
    [pat EXCEPT !.priority = r.priority, !.priority_label = r.priority_label,
                !.priority_color = r.priority_color]

(***************************************************************************)
(* Queries                                                                 *)
(***************************************************************************)
RowsOf(rows, pid) == SelectSeq(rows, LAMBDA r : r.patient_id = pid)

(* Python max(rows, key=...): the first row whose key is not exceeded *)
RECURSIVE MaxByParsedTs(_)
MaxByParsedTs(rows) ==
    IF Len(rows) = 1 THEN rows[1]
    ELSE LET best == MaxByParsedTs(Tail(rows))
         IN  IF _parse_ts(best.recorded_at) > _parse_ts(rows[1].recorded_at) THEN best ELSE rows[1]

(* ORDER BY created_at DESC LIMIT 1 on the text column *)
RECURSIVE MaxByCreatedAtText(_)
MaxByCreatedAtText(rows) ==
    IF Len(rows) = 1 THEN rows[1]
    ELSE LET best == MaxByCreatedAtText(Tail(rows))
         IN  IF StrLess(rows[1].created_at, best.created_at) THEN best ELSE rows[1]

(* the vitals dict the re-triage routes build from a stored row *)
StoredVitalsDict(row) ==
    VitalsDict(StrIfTruthy(IF row.spo2 = None THEN NoValue ELSE NumV(row.spo2)))

(* run_patient_triage: vitals_dict = None unless a latest row exists *)
LatestVitalsParsed(pid) ==
    LET rows == RowsOf(vitals, pid)
    IN  IF rows = <<>> THEN NoVitals ELSE StoredVitalsDict(MaxByParsedTs(rows))

(* create_prescription, update_patient: vitals_dict = {} unless a latest row exists *)
LatestVitalsCreatedAt(pid) ==
    LET rows == RowsOf(vitals, pid)
    IN  IF rows = <<>> THEN EmptyVitals ELSE StoredVitalsDict(MaxByCreatedAtText(rows))

(* ORDER BY prescribed_at DESC on the text column.  Rows with equal text
   come in an order the database chooses; they are kept in storage order
   here, and with the one medication name of Medications every order gives
   the same list of treatments *)
RECURSIVE SortRxDesc(_)
SortRxDesc(rows) ==
    IF rows = <<>> THEN <<>>
    ELSE LET rest == SortRxDesc(Tail(rows))
             greater == SelectSeq(rest, LAMBDA r : StrLess(rows[1].prescribed_at, r.prescribed_at))
             others == SelectSeq(rest, LAMBDA r : ~StrLess(rows[1].prescribed_at, r.prescribed_at))
         IN  greater \o <<rows[1]>> \o others

(* get_active_treatments and its inlined copies *)
get_active_treatments(pid) ==
    LET active == SelectSeq(prescriptions, LAMBDA r : r.patient_id = pid /\ r.status = "active")
        sorted == SortRxDesc(active)
    IN  [i \in 1..Len(sorted) |-> sorted[i].medication_name]

(* sorted(all_triage, key=lambda t: t.applied_at or ''): stable, by Python str order *)
RECURSIVE SortByAppliedAt(_)
SortByAppliedAt(rows) ==
    IF rows = <<>> THEN <<>>
    ELSE LET rest == SortByAppliedAt(Tail(rows))
             before == SelectSeq(rest, LAMBDA r : StrLess(r.applied_at, rows[1].applied_at))
             after == SelectSeq(rest, LAMBDA r : ~StrLess(r.applied_at, rows[1].applied_at))
         IN  before \o <<rows[1]>> \o after

Reverse(s) == [i \in 1..Len(s) |-> s[Len(s) + 1 - i]]

(* get_patient_triage_timeline: the entries, most recent first *)
get_patient_triage_timeline(pid) ==
    LET triage_list == SortByAppliedAt(RowsOf(evals, pid))
        timeline_data ==
            [i \in 1..Len(triage_list) |->
                [fromPriority |-> IF i = 1 THEN None ELSE triage_list[i - 1].priority,
                 toPriority |-> triage_list[i].priority,
                 appliedAt |-> triage_list[i].applied_at,
                 source |-> IF triage_list[i].groq_model # NoneStr THEN "ai" ELSE "manual"]]
    IN  Reverse(timeline_data)

(***************************************************************************)
(* The response of the last request, with what the handler did on the way  *)
(* (engine calls and their input), for the properties to refer to.         *)
(***************************************************************************)
EngineIn(complaint, v, treatments, passed) ==
    [complaint |-> complaint, vitals |-> v, treatments |-> treatments, with_treatments |-> passed]

NoEngineIn == EngineIn(<<>>, NoVitals, <<>>, FALSE)

(* a request body without fields *)
NoRequest == [f \in {} |-> NoneStr]

Response(op, pid, status, triage, calls, ein) ==
    [op |-> op, pid |-> pid, status |-> status, triage |-> triage, engine_calls |-> calls,
     engine_in |-> ein, arg |-> NoValue, request |-> NoRequest, changed |-> {}]

NoResponse == Response("none", 0, 0, "n/a", 0, NoEngineIn)

(***************************************************************************)
(* Inputs of the requests                                                  *)
(***************************************************************************)
Complaints == { <<"severe", "chest", "pain">>, <<"cough">> }

(* request.vitals of PatientCreate: absent, or an object whose spo2 is a string *)
RegVitals ==
    {NoVitals} \cup { VitalsDict(s) : s \in {StrV(85), TextV} }

(* spo2 of VitalsCreate (a float) *)
PostedSpo2 == {NumV(0), NumV(85)}

(* vitals_input.get("spo2") of the add_patient_vitals dict *)
AddedSpo2 == {NumV(85), NumV(98)}

(* the LLM behaviours the routes are exercised with *)
RouteLLM ==
    { LLMFail("no_api_key"),
      LLMOk([priority |-> 2, priority_label |-> "L2 - Emergent", priority_color |-> "orange", confidence |-> 90]),
      LLMOk([priority |-> None, priority_label |-> NoneStr, priority_color |-> NoneStr, confidence |-> None]) }

(* where the best-effort re-triage block fails, if it does: the engine call,
   the patient reload, or the evaluation insert and its commit *)
Faults == {"none", "engine", "reload", "commit"}

Medications == {"oxygen"}

(* shift_data.get("priority"): missing/null, a JSON number, a JSON string *)
ShiftPriorities == {NoValue, StrV(2)} \cup { NumV(n) : n \in {0, 2, 4, 5} }

NumRegistered == Cardinality({ p \in PatientIds : Registered(p) })

CanWrite == clock < MaxTick

Init ==
    /\ patients = [p \in PatientIds |-> AbsentPatient]
    /\ vitals = <<>>
    /\ prescriptions = <<>>
    /\ evals = <<>>
    /\ alerts = <<>>
    /\ clock = 0
    /\ resp = NoResponse
    /\ eng = EngIdle
    /\ stamps = StampsIdle
    /\ inflight = InflightIdle
    /\ beds = BedsIdle
    /\ registry = RegistryIdle
    /\ reset_tokens = ResetTokensIdle

(***************************************************************************)
(* POST /patients                                                          *)
(***************************************************************************)
(***************************************************************************)
(* Beds (models/bed.py): the Bed rows, Patient.bed_id of every patient and *)
(* the BedAssignment rows, open while released_at is null.                 *)
(***************************************************************************)
BedIds == {1, 2}

AvailableBed == [status |-> "available", current_patient_id |-> None]

(* a null released_at: a timestamp text is never empty *)
NotReleased == <<>>

BedAssignmentRow(b, p) ==
    [bed_id |-> b, patient_id |-> p, released_at |-> NotReleased, release_reason |-> NoneStr]

(* BedAssignment.bed_id == bed_id, BedAssignment.released_at.is_(None) *)
OpenAssignments(bd, b) ==
    { i \in 1..Len(bd.assignments) :
        bd.assignments[i].bed_id = b /\ bd.assignments[i].released_at = NotReleased }

(* patient.bed_id *)
PatientBed(bd, p) == IF p \in DOMAIN bd.patient_bed THEN bd.patient_bed[p] ELSE None

(* create_patient's manual bed selection: the bed is taken only if it is
   available; it becomes occupied and an assignment row is added *)
AssignAtRegistration(bd, p, bed_id) ==
    IF bed_id # None /\ bed_id \in DOMAIN bd.bed /\ bd.bed[bed_id].status = "available"
    THEN [bd EXCEPT !.bed[bed_id] = [status |-> "occupied", current_patient_id |-> p],
                    !.patient_bed[p] = bed_id,
                    !.assignments = Append(@, BedAssignmentRow(bed_id, p))]
    ELSE bd

(* "Release bed if assigned" of discharge_patient and transfer_patient_to_opd:
   the bed goes to cleaning and the patient loses it; no assignment row is
   touched *)
ReleasePatientBed(bd, p) ==
    LET b == PatientBed(bd, p)
    IN  IF b = None THEN bd
        ELSE [bd EXCEPT !.bed[b] = [status |-> "cleaning", current_patient_id |-> None],
                        !.patient_bed[p] = None]

(* the Patient row as create_patient builds it: inserted as pending_triage *)
NewPatient(complaint) ==
    [AbsentPatient EXCEPT !.status = "pending_triage", !.complaint = complaint]

(* registration that applies the result and leaves the status alone *)
TriagedPatientStillPending(pat, r) == ApplyResult(pat, r)

(* the row after the engine's result is applied: lines 491-494 *)
TriagedPatient(pat, r) == [ApplyResult(pat, r) EXCEPT !.status = "active"]

(* the registrations the model makes: every complaint, vitals and LLM
   behaviour with a gender given, and one request without gender *)
Registrations ==
    [complaint : Complaints, gender : {"M"}, vitals : RegVitals, llm : RouteLLM]
    \cup { [complaint |-> <<"cough">>, gender |-> NoneStr, vitals |-> NoVitals,
            llm |-> LLMFail("no_api_key")] }

create_patient(complaint, gender, v, llm, bed_id) ==
    LET p == NumRegistered + 1
        bad_spo2 == v.given /\ Truthy(v.spo2) /\ FloatRaises(v.spo2)
        row == VitalsRow(p, IF Truthy(v.spo2) THEN Float(v.spo2) ELSE None, IsoZ(clock))
        r == run_triage(llm, complaint, v)
        ein == EngineIn(complaint, v, <<>>, FALSE)
        pat == TriagedPatient(NewPatient(complaint), r)
    IN  /\ CanWrite
        /\ p \in PatientIds
        /\ clock' = clock + 1
        /\ UNCHANGED <<prescriptions, eng, stamps, inflight, registry, reset_tokens>>
        /\ IF bad_spo2
           THEN /\ resp' = Response("create_patient", p, 500, "n/a", 0, NoEngineIn)
                /\ UNCHANGED <<patients, vitals, evals, alerts, beds>>
           ELSE IF r.raised
           THEN /\ resp' = Response("create_patient", p, 500, "n/a", 1, ein)
                /\ UNCHANGED <<patients, vitals, evals, alerts, beds>>
           ELSE /\ patients' = [patients EXCEPT ![p] = pat]
                /\ beds' = AssignAtRegistration(beds, p, bed_id)
                /\ vitals' = IF v.given THEN Append(vitals, row) ELSE vitals
                /\ evals' = Append(evals, EvalRow(p, r, complaint, v, IsoZ(clock)))
                /\ IF gender = NoneStr
                   THEN \* request.gender[0] raises after the commit: no alert, the request fails
                        /\ alerts' = alerts
                        /\ resp' = Response("create_patient", p, 500, "n/a", 1, ein)
                   ELSE /\ alerts' = Append(alerts, AlertRow(p, "patient_registration", "New Patient", None, None))
                        /\ resp' = Response("create_patient", p, 201, "set", 1, ein)

(***************************************************************************)
(* POST /patients/{id}/shift-triage                                        *)
(***************************************************************************)
(* the membership test without its range: any truthy number passes *)
ValidShiftPriorityAnyNumber(v) == Truthy(v) /\ v.kind = "num"

ValidShiftPriority(v) == Truthy(v) /\ v.kind = "num" /\ v.num \in {1, 2, 3, 4}

shift_patient_triage(p, new_priority) ==
    LET old_priority == patients[p].priority
        np == new_priority.num
        r == TriageResult(np, LabelOf(np), ColorOf(np), GroqModelColumnDefault, None)
        escalated == np < (IF old_priority = None \/ old_priority = 0 THEN 5 ELSE old_priority)
        shifted == [Response("shift_patient_triage", p, 200, "n/a", 0, NoEngineIn) EXCEPT !.arg = new_priority]
        rejected == [shifted EXCEPT !.status = 400]
    IN  /\ Registered(p)
        /\ CanWrite
        /\ clock' = clock + 1
        /\ UNCHANGED <<vitals, prescriptions, aux>>
        /\ IF ~ValidShiftPriority(new_priority)
           THEN /\ resp' = rejected
                /\ UNCHANGED <<patients, evals, alerts>>
           ELSE /\ patients' = [patients EXCEPT ![p] = ApplyResult(@, r)]
                /\ evals' = Append(evals, EvalRow(p, r, patients[p].complaint, NoVitals, IsoZ(clock)))
                /\ alerts' = Append(alerts, AlertRow(p, "triage_shift",
                                        IF escalated THEN "Triage Escalated" ELSE "Triage De-escalated",
                                        old_priority, np))
                /\ resp' = shifted

(***************************************************************************)
(* The best-effort re-triage block shared by record_vitals,                *)
(* add_patient_vitals, create_prescription and update_patient: the engine  *)
(* call, the patient reload, the assignments and the evaluation insert sit *)
(* in one try block; a failure anywhere leaves triage_data = None and      *)
(* nothing of the block committed.                                         *)
(***************************************************************************)
RetriageDone(r, fault) == fault = "none" /\ ~r.raised

RetriagePatients(p, base, r, fault) ==
    IF RetriageDone(r, fault) THEN [base EXCEPT ![p] = ApplyResult(@, r)] ELSE base

(* a re-triage that keeps one evaluation per patient, replacing the previous one *)
RetriageEvalsReplacing(p, r, fault, complaint, v, applied_at) ==
    IF RetriageDone(r, fault)
    THEN Append(SelectSeq(evals, LAMBDA e : e.patient_id # p), EvalRow(p, r, complaint, v, applied_at))
    ELSE evals

RetriageEvals(p, r, fault, complaint, v, applied_at) ==
    IF RetriageDone(r, fault) THEN Append(evals, EvalRow(p, r, complaint, v, applied_at)) ELSE evals

(* the response without the except clause: a failure of the block is the request's failure *)
RetriageResponsePropagating(op, p, status, r, fault, ein) ==
    IF RetriageDone(r, fault) THEN Response(op, p, status, "set", 1, ein)
    ELSE Response(op, p, 500, "n/a", 1, ein)

RetriageResponse(op, p, status, r, fault, ein) ==
    Response(op, p, status, IF RetriageDone(r, fault) THEN "set" ELSE "null", 1, ein)

(***************************************************************************)
(* PUT /patients/{id}                                                      *)
(***************************************************************************)
(* the fields of PatientUpdate a request supplies (model_dump(exclude_unset));
   a field PatientUpdate does not declare, such as age, is dropped by the
   schema and leaves the empty update *)
UpdateRequests ==
    { [complaint |-> c] : c \in Complaints } \cup { [phone |-> "555"], [history |-> "asthma"] }
    \cup { NoRequest }

triage_relevant_fields == {"complaint", "history", "age", "gender"}

update_patient(p, request, llm, fault) ==
    LET update_data == request
        triage_fields_changed == \E field \in DOMAIN update_data : field \in triage_relevant_fields
        edited == [f \in DOMAIN patients[p] |->
                     IF f \in DOMAIN update_data THEN update_data[f] ELSE patients[p][f]]
        base == [patients EXCEPT ![p] = edited]
        v == LatestVitalsCreatedAt(p)
        treatments == get_active_treatments(p)
        r == run_triage(llm, edited.complaint, v)
        ein == EngineIn(edited.complaint, v, treatments, TRUE)
        changed == { f \in DOMAIN update_data : update_data[f] # patients[p][f] }
    IN  /\ Registered(p)
        /\ CanWrite
        /\ fault \in {"none", "engine", "commit"}
        /\ clock' = clock + 1
        /\ UNCHANGED <<vitals, prescriptions, alerts, aux>>
        /\ IF triage_fields_changed
           THEN /\ patients' = RetriagePatients(p, base, r, fault)
                /\ evals' = RetriageEvals(p, r, fault, edited.complaint, v, IsoZ(clock))
                /\ resp' = [RetriageResponse("update_patient", p, 200, r, fault, ein)
                              EXCEPT !.request = request, !.changed = changed]
           ELSE /\ fault = "none"
                /\ llm = LLMFail("no_api_key")
                /\ patients' = base
                /\ evals' = evals
                /\ resp' = [Response("update_patient", p, 200, "null", 0, NoEngineIn)
                              EXCEPT !.request = request, !.changed = changed]

(***************************************************************************)
(* POST /vitals/{id}                                                       *)
(***************************************************************************)
(* check_critical_vitals, the SpO2 rule: `if vitals.spo2:` then < 90 is critical *)
check_critical_vitals(spo2) == Truthy(spo2) /\ Float(spo2) < 90

record_vitals(p, spo2, llm, fault) ==
    LET row == VitalsRow(p, spo2.num, IsoZ(clock))
        is_critical == check_critical_vitals(spo2)
        v == StoredVitalsDict(row)
        current_treatments == get_active_treatments(p)
        r == run_triage(llm, patients[p].complaint, v)
        ein == EngineIn(patients[p].complaint, v, current_treatments, TRUE)
    IN  /\ Registered(p)
        /\ CanWrite
        /\ clock' = clock + 1
        /\ UNCHANGED <<prescriptions, aux>>
        /\ vitals' = Append(vitals, row)
        /\ alerts' = IF is_critical
                     THEN Append(alerts, AlertRow(p, "vitals_monitor", "Critical Vitals", None, None))
                     ELSE alerts
        /\ patients' = RetriagePatients(p, patients, r, fault)
        /\ evals' = RetriageEvals(p, r, fault, patients[p].complaint, v, IsoZ(clock))
        /\ resp' = RetriageResponse("record_vitals", p, 201, r, fault, ein)

(***************************************************************************)
(* POST /patients/{id}/vitals                                              *)
(***************************************************************************)
add_patient_vitals(p, spo2, llm, fault) ==
    LET old_priority == patients[p].priority
        now_iso == IsoZ(clock)
        row == VitalsRow(p, IF Truthy(spo2) THEN Float(spo2) ELSE None, now_iso)
        v == StoredVitalsDict(row)
        current_treatments == get_active_treatments(p)
        r == run_triage(llm, patients[p].complaint, v)
        ein == EngineIn(patients[p].complaint, v, current_treatments, TRUE)
        new_priority == IF RetriageDone(r, fault) THEN r.priority ELSE None
        priority_changed == new_priority # None /\ new_priority # old_priority
    IN  /\ Registered(p)
        /\ CanWrite
        /\ clock' = clock + 1
        /\ UNCHANGED <<prescriptions, aux>>
        /\ vitals' = Append(vitals, row)
        /\ patients' = RetriagePatients(p, patients, r, fault)
        /\ evals' = RetriageEvals(p, r, fault, patients[p].complaint, v, now_iso)
        /\ alerts' = IF priority_changed
                     THEN Append(alerts, AlertRow(p, "vitals_retriage", "Triage Changed",
                                                  old_priority, new_priority))
                     ELSE Append(alerts, AlertRow(p, "vitals_update", "Vitals Updated", None, None))
        /\ resp' = RetriageResponse("add_patient_vitals", p, 200, r, fault, ein)

(***************************************************************************)
(* POST /patients/{id}/prescriptions, PUT .../{rx}/discontinue             *)
(***************************************************************************)
create_prescription(p, medication_name, llm, fault) ==
    LET stored == Append(prescriptions, RxRow(p, medication_name))
        active == SelectSeq(stored, LAMBDA x : x.patient_id = p /\ x.status = "active")
        sorted == SortRxDesc(active)
        treatments == [i \in 1..Len(sorted) |-> sorted[i].medication_name]
        v == LatestVitalsCreatedAt(p)
        r == run_triage(llm, patients[p].complaint, v)
        ein == EngineIn(patients[p].complaint, v, treatments, TRUE)
    IN  /\ Registered(p)
        /\ CanWrite
        /\ clock' = clock + 1
        /\ UNCHANGED <<vitals, aux>>
        /\ prescriptions' = stored
        /\ patients' = RetriagePatients(p, patients, r, fault)
        /\ evals' = RetriageEvals(p, r, fault, patients[p].complaint, v, IsoZ(clock))
        /\ alerts' = Append(alerts, AlertRow(p, "prescription", "New Prescription", None, None))
        /\ resp' = RetriageResponse("create_prescription", p, 201, r, fault, ein)

discontinue_prescription(p, i) ==
    /\ i \in 1..Len(prescriptions)
    /\ prescriptions[i].patient_id = p
    /\ CanWrite
    /\ clock' = clock + 1
    /\ prescriptions' = [prescriptions EXCEPT ![i].status = "discontinued"]
    /\ resp' = Response("discontinue_prescription", p, 200, "n/a", 0, NoEngineIn)
    /\ UNCHANGED <<patients, vitals, evals, alerts, aux>>

(***************************************************************************)
(* POST /patients/{id}/triage (patients.py)                                *)
(***************************************************************************)
run_patient_triage(p, llm) ==
    LET v == LatestVitalsParsed(p)
        r == run_triage(llm, patients[p].complaint, v)
        ein == EngineIn(patients[p].complaint, v, <<>>, FALSE)
        pat == ApplyResult(patients[p], r)
    IN  /\ Registered(p)
        /\ CanWrite
        /\ clock' = clock + 1
        /\ UNCHANGED <<vitals, prescriptions, alerts, aux>>
        /\ IF r.raised
           THEN /\ resp' = Response("run_patient_triage", p, 500, "n/a", 1, ein)
                /\ UNCHANGED <<patients, evals>>
           ELSE /\ patients' = [patients EXCEPT ![p] =
                                  IF pat.status = "pending_triage" THEN [pat EXCEPT !.status = "active"] ELSE pat]
                /\ evals' = Append(evals, EvalRow(p, r, patients[p].complaint, v, IsoZ(clock)))
                /\ resp' = Response("run_patient_triage", p, 200, "set", 1, ein)

(***************************************************************************)
(* POST /patients/batch-triage: every patient that is not discharged and   *)
(* whose priority is null or outside 1..4 is triaged from its latest       *)
(* stored vitals; one commit at the end.                                   *)
(***************************************************************************)
NeedsTriage(p) ==
    /\ Registered(p)
    /\ patients[p].status # "discharged"
    /\ (patients[p].priority = None \/ patients[p].priority < 1 \/ patients[p].priority > 4)

BatchComplaint(p) ==
    IF patients[p].complaint # <<>> THEN patients[p].complaint ELSE <<"General", "checkup">>

BatchResult(p, llm) == run_triage(llm, BatchComplaint(p), LatestVitalsParsed(p))

(* max(all_vitals, key=lambda v: _parse_ts(v.recorded_at)) raises where
   _parse_ts raises for one of the patient's rows *)
LatestVitalsRaises(p) ==
    \E i \in 1..Len(vitals) : vitals[i].patient_id = p /\ _parse_ts_raises(vitals[i].recorded_at)

(* the iteration for patient p raises: in the selection of its latest
   vitals, or in the engine *)
BatchFails(p, llm) == LatestVitalsRaises(p) \/ BatchResult(p, llm[p]).raised

(* the patients whose iteration has completed when the loop ends or raises *)
BatchProcessed(todo, llm) ==
    { p \in todo : \A q \in todo : q <= p => ~BatchFails(q, llm) }

(* the patients for which the engine was called *)
BatchCalled(todo, llm) ==
    { p \in todo : /\ ~LatestVitalsRaises(p)
                   /\ \A q \in todo : q < p => ~BatchFails(q, llm) }

(* a commit inside the loop: what has been processed is stored *)
BatchCommittedEach(todo, llm) == BatchProcessed(todo, llm)

(* the one `await db.commit()` after the loop: reached only when no
   iteration has raised *)
BatchCommitted(todo, llm) ==
    IF \E p \in todo : BatchFails(p, llm) THEN {} ELSE todo

(* the evaluation rows of the loop, in the order of the patients *)
RECURSIVE BatchEvals(_, _, _)
BatchEvals(ids, llm, applied_at) ==
    IF ids = {} THEN <<>>
    ELSE LET p == CHOOSE i \in ids : \A j \in ids : i <= j
         IN  <<EvalRow(p, BatchResult(p, llm[p]), patients[p].complaint, LatestVitalsParsed(p), applied_at)>>
                 \o BatchEvals(ids \ {p}, llm, applied_at)

batch_triage_patients(llm) ==
    LET todo == { p \in DOMAIN patients : NeedsTriage(p) }
        called == BatchCalled(todo, llm)
        stored == BatchCommitted(todo, llm)
        last == IF called = {} THEN 0 ELSE CHOOSE i \in called : \A j \in called : j <= i
        ein == IF called = {} THEN NoEngineIn
               ELSE EngineIn(BatchComplaint(last), LatestVitalsParsed(last), <<>>, FALSE)
        failed == \E p \in todo : BatchFails(p, llm)
    IN  /\ CanWrite
        /\ clock' = clock + 1
        /\ UNCHANGED <<vitals, prescriptions, alerts, aux>>
        /\ patients' = [p \in DOMAIN patients |->
                           IF p \notin stored THEN patients[p]
                           ELSE LET pat == ApplyResult(patients[p], BatchResult(p, llm[p]))
                                IN  IF pat.status = "pending_triage"
                                    THEN [pat EXCEPT !.status = "active"] ELSE pat]
        /\ evals' = evals \o BatchEvals(stored, llm, IsoZ(clock))
        /\ resp' = Response("batch_triage_patients", last, IF failed THEN 500 ELSE 200,
                            IF failed \/ todo = {} THEN "n/a" ELSE "set", Cardinality(called), ein)

(***************************************************************************)
(* POST /triage/{id} (triage.py).  The row's applied_at is a datetime      *)
(* object handed to a String column: the driver either refuses the         *)
(* parameter, and the request fails with nothing committed, or stores the  *)
(* datetime's text form.                                                   *)
(***************************************************************************)
TriageRequests ==
    { [complaint |-> <<>>, vitals |-> NoVitals],
      [complaint |-> <<"cough">>, vitals |-> VitalsDict(NumV(85))] }

triage_run_patient_triage(p, request, llm, accepted) ==
    LET complaint == IF request.complaint # <<>> THEN request.complaint ELSE patients[p].complaint
        r == run_triage(llm, complaint, request.vitals)
        ein == EngineIn(complaint, request.vitals, <<>>, FALSE)
    IN  /\ Registered(p)
        /\ CanWrite
        /\ clock' = clock + 1
        /\ UNCHANGED <<vitals, prescriptions, alerts, aux>>
        /\ IF r.raised \/ ~accepted
           THEN /\ resp' = Response("triage_run_patient_triage", p, 500, "n/a", 1, ein)
                /\ UNCHANGED <<patients, evals>>
           ELSE /\ patients' = [patients EXCEPT ![p] = [ApplyResult(@, r) EXCEPT !.status = "active"]]
                /\ evals' = Append(evals, EvalRow(p, r, complaint, request.vitals, DatetimeText(clock)))
                /\ resp' = Response("triage_run_patient_triage", p, 200, "set", 1, ein)

(***************************************************************************)
(* POST /patients/{id}/discharge                                           *)
(***************************************************************************)
discharge_patient(p, rx) ==
    /\ Registered(p)
    /\ CanWrite
    /\ clock' = clock + 1
    /\ patients' = [patients EXCEPT ![p].status = "discharged"]
    /\ prescriptions' = IF rx = <<>> THEN prescriptions
                        ELSE Append(prescriptions, RxRow(p, rx[1]))
    /\ alerts' = Append(alerts, AlertRow(p, "discharge", "Patient Discharged", None, None))
    /\ resp' = Response("discharge_patient", p, 200, "n/a", 0, NoEngineIn)
    /\ beds' = ReleasePatientBed(beds, p)
    /\ UNCHANGED <<vitals, evals, eng, stamps, inflight, registry, reset_tokens>>

(***************************************************************************)
(* POST /patients/{id}/transfer-to-opd                                     *)
(***************************************************************************)
transfer_patient_to_opd(p) ==
    /\ Registered(p)
    /\ CanWrite
    /\ clock' = clock + 1
    /\ UNCHANGED <<vitals, prescriptions, evals, eng, stamps, inflight, registry, reset_tokens>>
    /\ IF patients[p].status \in {"discharged", "transferred_to_opd"}
       THEN /\ resp' = Response("transfer_patient_to_opd", p, 400, "n/a", 0, NoEngineIn)
            /\ UNCHANGED <<patients, alerts, beds>>
       ELSE /\ patients' = [patients EXCEPT ![p].status = "transferred_to_opd"]
            /\ beds' = ReleasePatientBed(beds, p)
            /\ alerts' = Append(alerts, AlertRow(p, "opd_transfer", "Transfer to OPD", None, None))
            /\ resp' = Response("transfer_patient_to_opd", p, 200, "n/a", 0, NoEngineIn)

Next ==
    \/ \E q \in Registrations : create_patient(q.complaint, q.gender, q.vitals, q.llm, None)
    \/ \E p \in PatientIds, v \in ShiftPriorities : shift_patient_triage(p, v)
    \/ \E p \in PatientIds, q \in UpdateRequests, llm \in RouteLLM, f \in Faults : update_patient(p, q, llm, f)
    \/ \E p \in PatientIds, v \in PostedSpo2, llm \in RouteLLM, f \in Faults : record_vitals(p, v, llm, f)
    \/ \E p \in PatientIds, v \in AddedSpo2, llm \in RouteLLM, f \in Faults : add_patient_vitals(p, v, llm, f)
    \/ \E p \in PatientIds, m \in Medications, llm \in RouteLLM, f \in Faults : create_prescription(p, m, llm, f)
    \/ \E p \in PatientIds, i \in 1..MaxTick : discontinue_prescription(p, i)
    \/ \E p \in PatientIds, llm \in RouteLLM : run_patient_triage(p, llm)
    \/ \E p \in PatientIds, q \in TriageRequests, llm \in RouteLLM, a \in BOOLEAN :
            triage_run_patient_triage(p, q, llm, a)
    \/ \E p \in PatientIds, rx \in {<<>>} \cup { <<m>> : m \in Medications } : discharge_patient(p, rx)
    \/ \E p \in PatientIds : transfer_patient_to_opd(p)
    \/ \E llm \in [PatientIds -> RouteLLM] : batch_triage_patients(llm)

Spec == Init /\ [][Next]_vars

EngNext == MockTriageCall \/ RunTriageCall

SpecEngine == EngInit /\ [][EngNext]_vars

(***************************************************************************)
(* _parse_ts and the latest-vitals selection on stored timestamp texts.    *)
(* recorded_at is a String column: it holds what the handlers wrote, and   *)
(* whatever text a migration, an import or the database's own text form    *)
(* left there.  A text is written without its date, which all share.       *)
(***************************************************************************)
StampBodies ==
    { <<sep, Digit(Sec(t))>> \o Fraction(t) : sep \in {ChT, ChSpace}, t \in 0..MaxTick }

TzTexts ==
    { <<>>, <<Digit(0)>>, <<Digit(1)>>, <<ChLetter>>,
      <<Digit(0), ChColon, Digit(1)>>, <<Digit(1), ChColon>> }

StampSuffixes ==
    { <<>>, <<ChZ>> } \cup { <<sg>> \o tz : sg \in {ChPlus, ChMinus}, tz \in TzTexts }

StoredTexts ==
    { <<>>, <<ChLetter>> } \cup { body \o suffix : body \in StampBodies, suffix \in StampSuffixes }

StampInit ==
    /\ patients = [p \in PatientIds |-> AbsentPatient]
    /\ vitals = <<>>
    /\ prescriptions = <<>>
    /\ evals = <<>>
    /\ alerts = <<>>
    /\ clock = 0
    /\ resp = NoResponse
    /\ eng = EngIdle
    /\ inflight = InflightIdle
    /\ beds = BedsIdle
    /\ registry = RegistryIdle
    /\ reset_tokens = ResetTokensIdle
    /\ stamps \in { [StampsIdle EXCEPT !.pc = "start", !.a = a, !.b = b] :
                        a \in StoredTexts, b \in StoredTexts }

(* one call of _parse_ts on a stored text *)
ParseTsCall ==
    /\ stamps.pc = "start"
    /\ stamps' = IF _parse_ts_raises(stamps.a)
                 THEN [stamps EXCEPT !.pc = "parsed", !.raised = TRUE]
                 ELSE [stamps EXCEPT !.pc = "parsed", !.value = _parse_ts(stamps.a)]
    /\ UNCHANGED <<dbvars, eng, inflight, side>>

(* latest_vitals = max(all_vitals, key=lambda v: _parse_ts(v.recorded_at))
   on two stored observations: the key is computed for every row *)
LatestVitalsCall ==
    LET all_vitals == <<VitalsRow(1, 85, stamps.a), VitalsRow(1, 98, stamps.b)>>
    IN  /\ stamps.pc = "start"
        /\ stamps' = IF _parse_ts_raises(stamps.a) \/ _parse_ts_raises(stamps.b)
                     THEN [stamps EXCEPT !.pc = "selected", !.raised = TRUE]
                     ELSE [stamps EXCEPT !.pc = "selected",
                                         !.winner = MaxByParsedTs(all_vitals).recorded_at]
        /\ UNCHANGED <<dbvars, eng, inflight, side>>

StampNext == ParseTsCall \/ LatestVitalsCall

SpecStamps == StampInit /\ [][StampNext]_vars

(***************************************************************************)
(* Two vitals submissions for one patient, each in its own request and     *)
(* database session, interleaved at the handlers' await points: the        *)
(* commit of the vitals row, the engine call, the patient reload, and the  *)
(* commit of the re-triage.  The session keeps the patient's attributes as *)
(* it loaded them, and its flush writes only the attributes whose assigned *)
(* value differs from the loaded one.  The session factory                 *)
(* (app/db/database.py) is not part of the source: with expire_on_commit   *)
(* the reload after the first commit reads the row again, without it the   *)
(* reload returns the object as loaded when the request began.             *)
(***************************************************************************)
ReqIds == {1, 2}

ConcurrentSpo2 == {NumV(85), NumV(98)}

ConcurrentLLM ==
    { LLMFail("no_api_key"),
      LLMOk([priority |-> 2, priority_label |-> "L2 - Emergent", priority_color |-> "orange", confidence |-> 90]) }

VitalsRequests ==
    [pc : {"start"}, op : {"record_vitals", "add_patient_vitals"}, spo2 : ConcurrentSpo2,
     llm : ConcurrentLLM, loaded : {AbsentPatient}, old_priority : {None}, vitals_dict : {NoVitals},
     result : {Raised}, applied_at : {<<>>}]

(* the database after one registration with the engine offline, and two
   requests about to start *)
ConcurrentInit ==
    /\ \E complaint \in Complaints :
          LET r == run_triage(LLMFail("no_api_key"), complaint, NoVitals)
          IN  /\ patients = [p \in PatientIds |-> TriagedPatient(NewPatient(complaint), r)]
              /\ evals = <<EvalRow(1, r, complaint, NoVitals, IsoZ(0))>>
              /\ alerts = <<AlertRow(1, "patient_registration", "New Patient", None, r.priority)>>
    /\ vitals = <<>>
    /\ prescriptions = <<>>
    /\ clock = 1
    /\ resp = NoResponse
    /\ eng = EngIdle
    /\ stamps = StampsIdle
    /\ inflight \in [expire_on_commit : BOOLEAN, req : [ReqIds -> VitalsRequests]]
    /\ beds = BedsIdle
    /\ registry = RegistryIdle
    /\ reset_tokens = ResetTokensIdle

(* the handler up to its first commit: the patient is loaded, the vitals
   row is stored *)
StoreVitals(i) ==
    LET q == inflight.req[i]
        row == VitalsRow(1, IF q.op = "record_vitals" THEN q.spo2.num
                            ELSE IF Truthy(q.spo2) THEN Float(q.spo2) ELSE None, IsoZ(clock))
    IN  /\ q.pc = "start"
        /\ vitals' = Append(vitals, row)
        /\ alerts' = IF q.op = "record_vitals" /\ check_critical_vitals(q.spo2)
                     THEN Append(alerts, AlertRow(1, "vitals_monitor", "Critical Vitals", None, None))
                     ELSE alerts
        /\ clock' = clock + 1
        /\ inflight' = [inflight EXCEPT !.req[i] =
                           [q EXCEPT !.pc = "stored", !.loaded = patients[1],
                                     !.old_priority = patients[1].priority,
                                     !.vitals_dict = StoredVitalsDict(row)]]
        /\ UNCHANGED <<patients, prescriptions, evals, resp, eng, stamps, side>>

(* await triage_service.run_triage(...) with the request's own vitals *)
RunRetriage(i) ==
    LET q == inflight.req[i]
    IN  /\ q.pc = "stored"
        /\ inflight' = [inflight EXCEPT !.req[i] =
                           [q EXCEPT !.pc = "triaged",
                                     !.result = run_triage(q.llm, q.loaded.complaint, q.vitals_dict)]]
        /\ UNCHANGED <<dbvars, eng, stamps, side>>

(* select(Patient) after the engine call, and the construction of the
   evaluation row with its applied_at *)
ReloadPatient(i) ==
    LET q == inflight.req[i]
    IN  /\ q.pc = "triaged"
        /\ clock' = clock + 1
        /\ inflight' = [inflight EXCEPT !.req[i] =
                           [q EXCEPT !.pc = "reloaded",
                                     !.loaded = IF inflight.expire_on_commit THEN patients[1] ELSE @,
                                     !.applied_at = IsoZ(clock)]]
        /\ UNCHANGED <<patients, vitals, prescriptions, evals, alerts, resp, eng, stamps, side>>

(* the UPDATE of the flush: only the attributes whose assigned value differs
   from the loaded one *)
UpdateChanged(pat, loaded, r) ==
    [pat EXCEPT !.priority = IF r.priority # loaded.priority THEN r.priority ELSE @,
                !.priority_label = IF r.priority_label # loaded.priority_label
                                   THEN r.priority_label ELSE @,
                !.priority_color = IF r.priority_color # loaded.priority_color
                                   THEN r.priority_color ELSE @]

(* db.add(triage_record); await db.commit(), and for add_patient_vitals the
   alert that follows *)
CommitRetriage(i) ==
    LET q == inflight.req[i]
        new_priority == q.result.priority
        priority_changed == new_priority # None /\ new_priority # q.old_priority
    IN  /\ q.pc = "reloaded"
        /\ patients' = [patients EXCEPT ![1] = UpdateChanged(@, q.loaded, q.result)]
        /\ evals' = Append(evals, EvalRow(1, q.result, q.loaded.complaint, q.vitals_dict, q.applied_at))
        /\ alerts' = IF q.op = "record_vitals" THEN alerts
                     ELSE IF priority_changed
                     THEN Append(alerts, AlertRow(1, "vitals_retriage", "Triage Changed",
                                                  q.old_priority, new_priority))
                     ELSE Append(alerts, AlertRow(1, "vitals_update", "Vitals Updated", None, None))
        /\ inflight' = [inflight EXCEPT !.req[i].pc = "done"]
        /\ UNCHANGED <<vitals, prescriptions, clock, resp, eng, stamps, side>>

ConcurrentNext ==
    \E i \in ReqIds : StoreVitals(i) \/ RunRetriage(i) \/ ReloadPatient(i) \/ CommitRetriage(i)

SpecConcurrent == ConcurrentInit /\ [][ConcurrentNext]_vars

(***************************************************************************)
(* Batch triage over a ward of two stored patients.  The patients come     *)
(* from registrations and from the seed script (status pending_triage, no  *)
(* priority); a priority outside 1..4 comes from an unvalidated engine     *)
(* result; PatientCreate.complaint is a str without a minimum length, so   *)
(* a complaint may be the empty text.  At most one vitals row is stored, and its recorded_at may be a *)
(* text _parse_ts raises for.                                              *)
(***************************************************************************)
BatchPatientIds == {1, 2}

StoredPatient(status, priority, complaint) ==
    [AbsentPatient EXCEPT !.status = status, !.priority = priority,
                          !.priority_label = LabelOf(priority),
                          !.priority_color = ColorOf(priority),
                          !.complaint = complaint]

BatchPatients ==
    { StoredPatient(st, pr, c) : st \in {"pending_triage", "active", "discharged"},
                                 pr \in {None, 2, 5}, c \in Complaints \cup {<<>>} }

BadStamp == <<ChT, Digit(0), ChPlus, ChLetter>>

BatchVitals ==
    { <<>> } \cup { <<VitalsRow(p, 85, t)>> : p \in BatchPatientIds, t \in {IsoZ(0), BadStamp} }

BatchInit ==
    /\ patients \in [BatchPatientIds -> BatchPatients]
    /\ vitals \in BatchVitals
    /\ prescriptions = <<>>
    /\ evals = <<>>
    /\ alerts = <<>>
    /\ clock = 0
    /\ resp = NoResponse
    /\ eng = EngIdle
    /\ stamps = StampsIdle
    /\ inflight = InflightIdle
    /\ beds = BedsIdle
    /\ registry = RegistryIdle
    /\ reset_tokens = ResetTokensIdle

BatchNext == \E llm \in [BatchPatientIds -> RouteLLM] : batch_triage_patients(llm)

SpecBatch == BatchInit /\ [][BatchNext]_vars

(***************************************************************************)
(* The latest-vitals selection, made twice on the same stored rows.        *)
(* select(PatientVitals).where(PatientVitals.patient_id == patient.id) has *)
(* no ORDER BY: the order in which the rows arrive is the database's       *)
(* choice at each execution.  max() keeps the first row among those with   *)
(* the greatest key.  Here `winner` and `again` hold the selected rows.    *)
(***************************************************************************)
LatestTexts == { IsoZ(0), IsoZ(1), <<ChLetter>>, <<>> }

LatestSpo2 == <<85, 98, 90>>

LatestTables ==
    UNION { { [i \in 1..n |-> VitalsRow(1, LatestSpo2[i], t[i])] : t \in [1..n -> LatestTexts] } :
            n \in 2..3 }

LatestInit ==
    /\ patients = [p \in PatientIds |-> StoredPatient("active", 2, <<"cough">>)]
    /\ vitals \in LatestTables
    /\ prescriptions = <<>>
    /\ evals = <<>>
    /\ alerts = <<>>
    /\ clock = 0
    /\ resp = NoResponse
    /\ eng = EngIdle
    /\ inflight = InflightIdle
    /\ beds = BedsIdle
    /\ registry = RegistryIdle
    /\ reset_tokens = ResetTokensIdle
    /\ stamps = [StampsIdle EXCEPT !.pc = "start"]

(* the rows of the patient in an order the database chooses *)
ResultOrders(pid) ==
    LET rows == RowsOf(vitals, pid)
    IN  { [i \in 1..Len(rows) |-> rows[f[i]]] : f \in Permutations(1..Len(rows)) }

(* all_vitals = vitals_result.scalars().all(); latest_vitals = max(...) *)
LatestVitalsSelection ==
    /\ stamps.pc \in {"start", "once"}
    /\ \E all_vitals \in ResultOrders(1) :
          stamps' = IF stamps.pc = "start"
                    THEN [stamps EXCEPT !.pc = "once", !.winner = MaxByParsedTs(all_vitals)]
                    ELSE [stamps EXCEPT !.pc = "twice", !.again = MaxByParsedTs(all_vitals)]
    /\ UNCHANGED <<dbvars, eng, inflight, side>>

LatestNext == LatestVitalsSelection

SpecLatest == LatestInit /\ [][LatestNext]_vars

(***************************************************************************)
(* The priority, label and color the handlers store, with every source of  *)
(* a value: the LLM's JSON object, whose fields run_triage returns as they *)
(* came, the rule-based fallback, and the manual shift.                    *)
(***************************************************************************)
MislabelledObject ==
    [priority |-> 2, priority_label |-> "L1 - Critical", priority_color |-> "red", confidence |-> 90]

LabelLLM == { LLMFail("no_api_key") } \cup { LLMOk(o) : o \in LLMObjects \cup {MislabelledObject} }

LabelInit ==
    /\ patients \in [PatientIds -> { NewPatient(c) : c \in Complaints }]
    /\ vitals = <<>>
    /\ prescriptions = <<>>
    /\ evals = <<>>
    /\ alerts = <<>>
    /\ clock = 0
    /\ resp = NoResponse
    /\ eng = EngIdle
    /\ stamps = StampsIdle
    /\ inflight = InflightIdle
    /\ beds = BedsIdle
    /\ registry = RegistryIdle
    /\ reset_tokens = ResetTokensIdle

LabelNext ==
    \/ \E p \in PatientIds, llm \in LabelLLM : run_patient_triage(p, llm)
    \/ \E p \in PatientIds, v \in ShiftPriorities : shift_patient_triage(p, v)

SpecLabels == LabelInit /\ [][LabelNext]_vars

(***************************************************************************)
(* POST /beds/{id}/assign.  bed.assigned_at is a datetime object handed to *)
(* a String column, as applied_at is in POST /triage/{id}: the driver      *)
(* either refuses the parameter and nothing is committed, or stores it.    *)
(* The patient's previous bed goes to cleaning; its assignment row is not  *)
(* touched.                                                                *)
(***************************************************************************)
assign_bed(b, p, accepted) ==
    LET old == PatientBed(beds, p)
        freed == IF old = None \/ old \notin DOMAIN beds.bed THEN beds.bed
                 ELSE [beds.bed EXCEPT ![old] = [status |-> "cleaning", current_patient_id |-> None]]
        answer(st) == Response("assign_bed", p, st, "n/a", 0, NoEngineIn)
    IN  /\ CanWrite
        /\ clock' = clock + 1
        /\ UNCHANGED <<patients, vitals, prescriptions, evals, alerts, eng, stamps, inflight,
                       registry, reset_tokens>>
        /\ IF b \notin DOMAIN beds.bed
           THEN resp' = answer(404) /\ beds' = beds
           ELSE IF beds.bed[b].status = "occupied"
           THEN resp' = answer(400) /\ beds' = beds
           ELSE IF ~Registered(p)
           THEN resp' = answer(404) /\ beds' = beds
           ELSE IF ~accepted
           THEN resp' = answer(500) /\ beds' = beds
           ELSE /\ resp' = answer(200)
                /\ beds' = [beds EXCEPT
                               !.bed = [freed EXCEPT ![b] = [status |-> "occupied", current_patient_id |-> p]],
                               !.patient_bed[p] = b,
                               !.assignments = Append(@, BedAssignmentRow(b, p))]

(***************************************************************************)
(* POST /beds/{id}/release.  The open assignment is read with              *)
(* scalar_one_or_none(), which raises MultipleResultsFound on two rows;    *)
(* the handler has no except clause.  released_at is a datetime object     *)
(* handed to a String column.                                              *)
(***************************************************************************)
release_bed(b, accepted) ==
    LET open == OpenAssignments(beds, b)
        holder == beds.bed[b].current_patient_id
        answer(st, why) == [Response("release_bed", holder, st, "n/a", 0, NoEngineIn) EXCEPT !.arg = [kind |-> why, num |-> 0]]
    IN  /\ CanWrite
        /\ b \in DOMAIN beds.bed
        /\ clock' = clock + 1
        /\ UNCHANGED <<patients, vitals, prescriptions, evals, alerts, eng, stamps, inflight,
                       registry, reset_tokens>>
        /\ IF Cardinality(open) > 1
           THEN resp' = answer(500, "MultipleResultsFound") /\ beds' = beds
           ELSE IF open # {} /\ ~accepted
           THEN resp' = answer(500, "DataError") /\ beds' = beds
           ELSE /\ resp' = answer(200, "released")
                /\ beds' = [beds EXCEPT
                               !.assignments = [i \in DOMAIN @ |->
                                   IF i \in open
                                   THEN [@[i] EXCEPT !.released_at = DatetimeText(clock),
                                                     !.release_reason = "manual_release"]
                                   ELSE @[i]],
                               !.bed[b] = [status |-> "cleaning", current_patient_id |-> None],
                               !.patient_bed = [q \in DOMAIN @ |-> IF q = holder THEN None ELSE @[q]]]

BedRegistrations ==
    { q \in Registrations : q.complaint = <<"cough">> /\ q.gender = "M" /\ q.vitals = NoVitals
                               /\ q.llm = LLMFail("no_api_key") }

BedsInit ==
    /\ patients = [p \in PatientIds |-> AbsentPatient]
    /\ vitals = <<>>
    /\ prescriptions = <<>>
    /\ evals = <<>>
    /\ alerts = <<>>
    /\ clock = 0
    /\ resp = NoResponse
    /\ eng = EngIdle
    /\ stamps = StampsIdle
    /\ inflight = InflightIdle
    /\ beds = [bed |-> [b \in BedIds |-> AvailableBed],
               patient_bed |-> [p \in PatientIds |-> None],
               assignments |-> <<>>]
    /\ registry = RegistryIdle
    /\ reset_tokens = ResetTokensIdle

BedsNext ==
    \/ \E q \in BedRegistrations, b \in BedIds \cup {None} :
            create_patient(q.complaint, q.gender, q.vitals, q.llm, b)
    \/ \E p \in PatientIds : discharge_patient(p, <<>>)
    \/ \E b \in BedIds, p \in PatientIds, a \in BOOLEAN : assign_bed(b, p, a)
    \/ \E b \in BedIds, a \in BOOLEAN : release_bed(b, a)

SpecBeds == BedsInit /\ [][BedsNext]_vars

(***************************************************************************)
(* generate_patient_id and the insert of create_patient, for registrations *)
(* of one tenant that run at the same time.  Each request has its own      *)
(* session: the count reads the committed rows, and the row a request adds *)
(* is visible to the others from its commit on.  The patients table has no *)
(* unique constraint on patient_id.                                        *)
(***************************************************************************)
ChP == 80

IdWidth == 5

RECURSIVE DecimalDigits(_)
(* str(n) for n >= 0 *)
DecimalDigits(n) ==
    IF n < 10 THEN <<Digit(n)>> ELSE Append(DecimalDigits(n \div 10), Digit(n % 10))

RECURSIVE Zfill(_, _)
(* text.zfill(width) of a text without sign *)
Zfill(text, width) == IF Len(text) >= width THEN text ELSE Zfill(<<Digit(0)>> \o text, width)

(* f"P{str(count + 1).zfill(5)}" *)
PatientIdText(count) == <<ChP>> \o Zfill(DecimalDigits(count + 1), IdWidth)

RegIds == {1, 2, 3}

MaxStored == 2

(* the patient_id values earlier registrations left in the table *)
StoredIds(n) == [k \in 1..n |-> PatientIdText(k - 1)]

RegistryInit ==
    /\ patients = [p \in PatientIds |-> AbsentPatient]
    /\ vitals = <<>>
    /\ prescriptions = <<>>
    /\ evals = <<>>
    /\ alerts = <<>>
    /\ clock = 0
    /\ resp = NoResponse
    /\ eng = EngIdle
    /\ stamps = StampsIdle
    /\ inflight = InflightIdle
    /\ beds = BedsIdle
    /\ registry \in { [patient_ids |-> StoredIds(n),
                        req |-> [i \in RegIds |-> [pc |-> "start", patient_id |-> <<>>]]] :
                      n \in 0..MaxStored }
    /\ reset_tokens = ResetTokensIdle

(* patient_id = await generate_patient_id(db, current_user.tenant_id) *)
GeneratePatientId(i) ==
    /\ registry.req[i].pc = "start"
    /\ registry' = [registry EXCEPT !.req[i] =
                        [pc |-> "counted", patient_id |-> PatientIdText(Len(registry.patient_ids))]]
    /\ UNCHANGED <<dbvars, eng, stamps, inflight, beds, reset_tokens>>

(* db.add(patient) ... await db.commit() *)
CommitRegistration(i) ==
    /\ registry.req[i].pc = "counted"
    /\ registry' = [registry EXCEPT !.req[i].pc = "done",
                                    !.patient_ids = Append(@, registry.req[i].patient_id)]
    /\ UNCHANGED <<dbvars, eng, stamps, inflight, beds, reset_tokens>>

(* the request fails before its commit (float() of the vitals or the engine
   raises): nothing is stored *)
FailRegistration(i) ==
    /\ registry.req[i].pc = "counted"
    /\ registry' = [registry EXCEPT !.req[i].pc = "failed"]
    /\ UNCHANGED <<dbvars, eng, stamps, inflight, beds, reset_tokens>>

RegistryNext ==
    \E i \in RegIds : GeneratePatientId(i) \/ CommitRegistration(i) \/ FailRegistration(i)

SpecRegistry == RegistryInit /\ [][RegistryNext]_vars

(***************************************************************************)
(* Password reset (auth.py): forgot_password stores a PasswordResetToken   *)
(* row with the OTP's hash and mails the OTP, verify_otp exchanges the OTP *)
(* for a reset token, reset_password consumes the row.  The clock is the   *)
(* current time; otp_expires_at is stored as isoformat() text and read     *)
(* back with fromisoformat.                                                *)
(***************************************************************************)
Emails == {"nurse@er", "doctor@er", "nobody@er"}

(* the emails that have a User row *)
UserEmails == {"nurse@er", "doctor@er"}

(* generate_otp() draws at random: two calls can return the same digits *)
OtpValues == {1, 2}

(* timedelta(minutes=10), in ticks *)
OtpLifetime == 2

(* hash_token: a digest, equal for equal inputs *)
hash_token(x) == [digest_of |-> x]

NoHash == [digest_of |-> None]

(* datetime.isoformat() of a naive datetime *)
IsoText(t) == <<ChT, Digit(Sec(t))>> \o Fraction(t)

(* text.replace('Z', '+00:00').replace('+00:00', '') *)
StripUtc(text) ==
    IF text # <<>> /\ text[Len(text)] = ChZ THEN SubSeq(text, 1, Len(text) - 1) ELSE text

ResetTokenRow(email, otp, expiry) ==
    [email |-> email, otp_hash |-> hash_token(otp), otp_expires_at |-> IsoText(expiry),
     reset_token_hash |-> NoHash, is_used |-> FALSE]

(* PasswordResetToken.email == request.email, is_used == False *)
UnusedTokens(email) ==
    { i \in 1..Len(reset_tokens.rows) :
        reset_tokens.rows[i].email = email /\ ~reset_tokens.rows[i].is_used }

AuthResponse(op, st) == Response(op, 0, st, "n/a", 0, NoEngineIn)

OtpInit ==
    /\ patients = [p \in PatientIds |-> AbsentPatient]
    /\ vitals = <<>>
    /\ prescriptions = <<>>
    /\ evals = <<>>
    /\ alerts = <<>>
    /\ clock = 0
    /\ resp = NoResponse
    /\ eng = EngIdle
    /\ stamps = StampsIdle
    /\ inflight = InflightIdle
    /\ beds = BedsIdle
    /\ registry = RegistryIdle
    /\ reset_tokens = ResetTokensIdle

(* POST /auth/forgot-password *)
forgot_password(email, otp) ==
    /\ CanWrite
    /\ clock' = clock + 1
    /\ resp' = AuthResponse("forgot_password", 200)
    /\ reset_tokens' = IF email \notin UserEmails THEN reset_tokens
                       ELSE [rows |-> Append(reset_tokens.rows, ResetTokenRow(email, otp, clock + OtpLifetime)),
                             mailbox |-> Append(reset_tokens.mailbox, [to |-> email, otp |-> otp])]
    /\ UNCHANGED <<patients, vitals, prescriptions, evals, alerts, eng, stamps, inflight, beds, registry>>

(* POST /auth/verify-otp: the unused rows of the email are read with
   scalar_one_or_none(), which raises MultipleResultsFound on two rows; the
   handler's `except Exception` turns that into a 500 *)
verify_otp(email, otp) ==
    LET unused == UnusedTokens(email)
        i == CHOOSE k \in unused : TRUE
        row == reset_tokens.rows[i]
        body == StripUtc(row.otp_expires_at)
    IN  /\ CanWrite
        /\ clock' = clock + 1
        /\ UNCHANGED <<patients, vitals, prescriptions, evals, alerts, eng, stamps, inflight, beds, registry>>
        /\ IF Cardinality(unused) > 1
           THEN resp' = AuthResponse("verify_otp", 500) /\ reset_tokens' = reset_tokens
           ELSE IF unused = {}
           THEN resp' = AuthResponse("verify_otp", 400) /\ reset_tokens' = reset_tokens
           ELSE IF row.otp_hash # hash_token(otp)
           THEN resp' = AuthResponse("verify_otp", 400) /\ reset_tokens' = reset_tokens
           ELSE IF FromIsoRaises(body)
           THEN resp' = AuthResponse("verify_otp", 500) /\ reset_tokens' = reset_tokens
           ELSE IF clock > FromIso(body)
           THEN resp' = AuthResponse("verify_otp", 400) /\ reset_tokens' = reset_tokens
           ELSE /\ resp' = [AuthResponse("verify_otp", 200) EXCEPT !.arg = NumV(clock)]
                /\ reset_tokens' = [reset_tokens EXCEPT !.rows[i].reset_token_hash = hash_token(clock)]

(* POST /auth/reset-password with a reset token verify_otp returned, within
   its fifteen minutes: the row is marked used *)
reset_password(token) ==
    LET found == { i \in 1..Len(reset_tokens.rows) :
                     reset_tokens.rows[i].reset_token_hash = hash_token(token)
                     /\ ~reset_tokens.rows[i].is_used }
    IN  /\ CanWrite
        /\ clock' = clock + 1
        /\ UNCHANGED <<patients, vitals, prescriptions, evals, alerts, eng, stamps, inflight, beds, registry>>
        /\ IF found = {}
           THEN resp' = AuthResponse("reset_password", 400) /\ reset_tokens' = reset_tokens
           ELSE /\ resp' = AuthResponse("reset_password", 200)
                /\ reset_tokens' = [reset_tokens EXCEPT !.rows =
                                        [k \in DOMAIN @ |-> IF k \in found THEN [@[k] EXCEPT !.is_used = TRUE] ELSE @[k]]]

(* time passes between two requests *)
PassTime ==
    /\ CanWrite
    /\ clock' = clock + 1
    /\ UNCHANGED <<patients, vitals, prescriptions, evals, alerts, resp, aux>>

OtpNext ==
    \/ \E email \in Emails, otp \in OtpValues : forgot_password(email, otp)
    \/ \E email \in Emails, otp \in OtpValues : verify_otp(email, otp)
    \/ \E token \in 0..MaxTick : reset_password(token)
    \/ PassTime

SpecOtp == OtpInit /\ [][OtpNext]_vars

(***************************************************************************)
(* Properties                                                              *)
(***************************************************************************)

(* C1: after any sequence of completed operations, a patient that has
   evaluations has as its stored priority the toPriority of the most recent
   entry that get_patient_triage_timeline returns. *)
C1_PriorityIsLatestTimelineEntry ==
    \A p \in PatientIds :
        RowsOf(evals, p) # <<>> =>
            get_patient_triage_timeline(p)[1].toPriority = patients[p].priority

(* what C2 calls a priority that is missing or not in {1,2,3,4} *)
InvalidShiftInput(v) == ~(v.kind = "num" /\ v.num \in 1..4)

(* C2: a shift request whose priority is missing or not one of 1, 2, 3, 4
   is answered 400 and leaves the patient's priority, label and color, the
   evaluation rows and the alerts as they were. *)
C2_InvalidShiftRejected ==
    [][\A p \in PatientIds, v \in ShiftPriorities :
          (InvalidShiftInput(v) /\ shift_patient_triage(p, v)) =>
              /\ resp'.status = 400
              /\ patients' = patients
              /\ evals' = evals
              /\ alerts' = alerts]_vars

C2_Witness ==
    /\ resp.op = "shift_patient_triage"
    /\ resp.status = 400
    /\ resp.arg = NumV(5)
    /\ patients[resp.pid].priority \in 1..4
    /\ Len(evals) = 1

(* C3: when no API key is configured, the LLM call raises or times out, or
   its response is not a JSON object, run_triage does not raise and returns
   the rule-based fallback result, marked groq_model "mock" with confidence
   0.75, for every complaint and every vitals record. *)
C3_FallbackOnEngineFailure ==
    (eng.pc = "run" /\ eng.llm.kind \in LLMFailures) =>
        /\ ~eng.result.raised
        /\ eng.result.groq_model = "mock"
        /\ eng.result.confidence = MockConfidence
        /\ eng.result = _mock_triage(eng.complaint, eng.vitals)

C3_Witness ==
    /\ eng.pc = "run"
    /\ eng.llm.kind = "timeout"
    /\ eng.vitals = VitalsDict(NoValue)
    /\ eng.complaint = <<"severe", "pain">>
    /\ eng.result.groq_model = "mock"
    /\ eng.result.priority = 2

(* a complaint that contains a critical keyword, in any letter case *)
HasCriticalKeyword(text) == \E kw \in CriticalKeywords : Contains(Lower(text), kw)

(* C4: for every complaint containing a critical keyword in any letter
   case, and every vitals record or none, _mock_triage returns priority 1,
   label "L1 - Critical" and color "red". *)
C4_CriticalKeywordIsPriority1 ==
    (eng.pc = "mock" /\ HasCriticalKeyword(eng.complaint)) =>
        /\ ~eng.result.raised
        /\ eng.result.priority = 1
        /\ eng.result.priority_label = "L1 - Critical"
        /\ eng.result.priority_color = "red"

C4_Witness ==
    /\ eng.pc = "mock"
    /\ eng.complaint = <<"Chest", "PAIN">>
    /\ eng.vitals = VitalsDict(NumV(98))
    /\ eng.result.priority = 1

(* C5: for every vitals record whose SpO2 is a number below 90, as a number
   or as the text of one, and every complaint, _mock_triage returns
   priority 1, label "L1 - Critical" and color "red". *)
C5_LowSpo2IsPriority1 ==
    (eng.pc = "mock" /\ eng.vitals.given /\ eng.vitals.spo2.kind \in {"num", "str"}
                     /\ eng.vitals.spo2.num < 90) =>
        /\ eng.result.priority = 1
        /\ eng.result.priority_label = "L1 - Critical"
        /\ eng.result.priority_color = "red"

(* C6: in every state a registered patient's priority is null only if its
   status is pending_triage, and a patient whose status is not
   pending_triage has a priority in {1,2,3,4}, whichever engine path
   produced the applied result and whichever operation wrote last. *)
C6_TriagedPriorityInRange ==
    \A p \in PatientIds :
        Registered(p) =>
            /\ (patients[p].priority = None => patients[p].status = "pending_triage")
            /\ (patients[p].status # "pending_triage" => patients[p].priority \in 1..4)

BestEffortOps == {"record_vitals", "add_patient_vitals", "create_prescription", "update_patient"}

(* the handler's primary write is in the database after the step *)
PrimaryWriteStored ==
    CASE resp'.op \in {"record_vitals", "add_patient_vitals"} -> Len(vitals') = Len(vitals) + 1
      [] resp'.op = "create_prescription" -> Len(prescriptions') = Len(prescriptions) + 1
      [] OTHER -> \A f \in DOMAIN resp'.request : patients'[resp'.pid][f] = resp'.request[f]

(* C7: when the re-triage step of record_vitals, add_patient_vitals,
   create_prescription or update_patient fails (the engine was called and
   no evaluation was stored: the engine call, the patient reload, the
   evaluation insert or its commit raised), the request is still answered
   with success and a null triage field, and the vitals row, prescription
   or patient edit committed before it stays stored. *)
C7_RetriageFailureNotPropagated ==
    [][(clock' # clock /\ resp'.op \in BestEffortOps /\ resp'.engine_calls = 1 /\ evals' = evals) =>
          /\ resp'.status \in {200, 201}
          /\ resp'.triage = "null"
          /\ patients'[resp'.pid].priority = patients[resp'.pid].priority
          /\ PrimaryWriteStored]_vars

C7_Witness ==
    /\ resp.op = "create_prescription"
    /\ resp.status = 201
    /\ resp.triage = "null"
    /\ resp.engine_calls = 1
    /\ Len(prescriptions) = 1
    /\ Len(evals) = 1

(* the observation most recently stored *)
NewObservation == vitals[Len(vitals)]

(* the engine's vitals input carries the SpO2 of the given observation *)
CarriesSpo2(v, row) ==
    /\ v.given
    /\ IF row.spo2 = None THEN v.spo2 = NoValue
       ELSE v.spo2.kind \in {"num", "str"} /\ v.spo2.num = row.spo2

(* the patient's priority fields and the last evaluation row are those of one applied result *)
LastEvalApplied(p) ==
    /\ evals # <<>>
    /\ evals[Len(evals)].patient_id = p
    /\ evals[Len(evals)].is_applied
    /\ evals[Len(evals)].priority = patients[p].priority
    /\ evals[Len(evals)].priority_label = patients[p].priority_label
    /\ evals[Len(evals)].priority_color = patients[p].priority_color

(* C8: every successful recording of vitals (record_vitals,
   add_patient_vitals) calls the engine exactly once with the values of the
   observation just recorded and, when the engine succeeds, leaves the
   patient's priority fields set from the result and one new evaluation
   with is_applied true. *)
C8_VitalsRecordingRetriages ==
    (resp.op \in {"record_vitals", "add_patient_vitals"} /\ resp.status \in {200, 201}) =>
        /\ resp.engine_calls = 1
        /\ CarriesSpo2(resp.engine_in.vitals, NewObservation)
        /\ (resp.triage = "set" => LastEvalApplied(resp.pid))

(* C9: update_patient runs re-triage exactly when the fields whose values
   the edit changes include one of complaint, history, age, gender; an edit
   changing only other fields makes no engine call. *)
C9_RetriageIffRelevantFieldChanged ==
    (resp.op = "update_patient" /\ resp.status = 200) =>
        (resp.engine_calls = 1 <=> resp.changed \cap triage_relevant_fields # {})

RetriageOps ==
    {"record_vitals", "add_patient_vitals", "create_prescription", "update_patient",
     "run_patient_triage", "triage_run_patient_triage"}

(* the treatments the engine was given; none when the argument is left out *)
TreatmentsGiven(ein) == IF ein.with_treatments THEN ein.treatments ELSE <<>>

(* C10: in every re-triage of a stored patient (new vitals, new
   prescription, triage-relevant edit, explicit run or re-run) the
   treatments given to the engine are the patient's active prescriptions of
   that moment, most recently prescribed first. *)
C10_TreatmentsAreActivePrescriptions ==
    (resp.op \in RetriageOps /\ resp.engine_calls = 1) =>
        TreatmentsGiven(resp.engine_in) = get_active_treatments(resp.pid)

(* what a registration request must leave stored for patient p *)
RegistrationStored(p, q) ==
    LET r == run_triage(q.llm, q.complaint, q.vitals)
        rows == RowsOf(evals', p)
    IN  /\ resp'.engine_calls = 1
        /\ patients'[p].status = "active"
        /\ patients'[p].priority = r.priority
        /\ patients'[p].priority_label = r.priority_label
        /\ patients'[p].priority_color = r.priority_color
        /\ Len(rows) = 1
        /\ rows[1].priority = r.priority
        /\ (q.llm.kind = "no_api_key" /\ q.complaint = <<"severe", "chest", "pain">>) =>
              /\ patients'[p].priority = 1
              /\ patients'[p].priority_label = "L1 - Critical"
              /\ patients'[p].priority_color = "red"
              /\ rows[1].groq_model = "mock"

(* C11: a registration that stores the patient has run the engine once and
   leaves the patient with status active, the engine's priority, label and
   color, and exactly one evaluation row; with the engine offline and the
   complaint "severe chest pain" that is priority 1, "L1 - Critical", red,
   and the row is marked "mock". *)
C11_RegistrationTriagesOnce ==
    [][(resp'.op = "create_patient" /\ clock' # clock) =>
          \A q \in Registrations :
              (create_patient(q.complaint, q.gender, q.vitals, q.llm, None)
                    /\ patients'[resp'.pid].status # "absent") =>
                  RegistrationStored(resp'.pid, q)]_vars

C11_Witness ==
    /\ resp.op = "create_patient"
    /\ resp.status = 201
    /\ patients[1].status = "active"
    /\ patients[1].complaint = <<"severe", "chest", "pain">>
    /\ patients[1].priority = 1
    /\ Len(evals) = 1
    /\ evals[1].groq_model = "mock"

(* the evaluation row the last request appended *)
LastEvalRow == evals[Len(evals)]

(* the timeline entries that show the row *)
TimelineEntriesOf(row) ==
    LET tl == get_patient_triage_timeline(row.patient_id)
    IN  { i \in 1..Len(tl) : tl[i].appliedAt = row.applied_at /\ tl[i].toPriority = row.priority }

(* C12: after a successful shift no engine call was made, the patient has
   the new priority, and the evaluation row the shift wrote is marked as
   manual: its model field is not the name of an AI model and the timeline
   reports its source as "manual". *)
C12_ShiftIsManual ==
    (resp.op = "shift_patient_triage" /\ resp.status = 200) =>
        /\ resp.engine_calls = 0
        /\ patients[resp.pid].priority = resp.arg.num
        /\ LastEvalRow.patient_id = resp.pid
        /\ LastEvalRow.priority = resp.arg.num
        /\ LastEvalRow.groq_model # GROQ_MODEL
        /\ TimelineEntriesOf(LastEvalRow) # {}
        /\ \A i \in TimelineEntriesOf(LastEvalRow) :
              get_patient_triage_timeline(resp.pid)[i].source = "manual"

(* new is strictly less than the stored priority old; no stored priority
   (null) is less than nothing *)
IsEscalation(new, old) == old # None /\ new < old

(* C13: the alert of a successful shift is titled as an escalation exactly
   when the new priority is strictly less than the priority the patient had
   stored before the shift, and as a de-escalation otherwise; the patient
   fields and the evaluation row written are those of the new priority in
   both cases. *)
C13_ShiftAlertClassification ==
    [][(resp'.op = "shift_patient_triage" /\ resp'.status = 200 /\ clock' # clock) =>
          LET p == resp'.pid
              new == resp'.arg.num
              old == patients[p].priority
              alert == alerts'[Len(alerts')]
          IN  /\ Len(alerts') = Len(alerts) + 1
              /\ alert.triggered_by = "triage_shift"
              /\ alert.title = IF IsEscalation(new, old) THEN "Triage Escalated"
                                                       ELSE "Triage De-escalated"
              /\ patients'[p].priority = new
              /\ patients'[p].priority_label = LabelOf(new)
              /\ evals'[Len(evals')].priority = new]_vars

VitalsEntryPoints == {"record_vitals", "add_patient_vitals"}

(* C14: whenever a vitals submission, through either entry point, changes
   the patient's stored priority, the request emits an alert that records
   the old and the new priority. *)
C14_PriorityChangeAlerted ==
    [][(resp'.op \in VitalsEntryPoints /\ clock' # clock
            /\ patients'[resp'.pid].priority # patients[resp'.pid].priority) =>
          /\ Len(alerts') > Len(alerts)
          /\ alerts'[Len(alerts')].patient_id = resp'.pid
          /\ alerts'[Len(alerts')].fromPriority = patients[resp'.pid].priority
          /\ alerts'[Len(alerts')].toPriority = patients'[resp'.pid].priority]_vars

(* C15: the timeline lists a patient's evaluations most recent first by the
   instant of their application timestamp, whatever the text format the
   entry point wrote. *)
C15_TimelineChronological ==
    \A p \in PatientIds :
        LET tl == get_patient_triage_timeline(p)
        IN  \A i \in 1..(Len(tl) - 1) :
                _parse_ts(tl[i].appliedAt) >= _parse_ts(tl[i + 1].appliedAt)

(* the evaluations of the row's patient applied before the row *)
EarlierEvals(row) ==
    { i \in 1..Len(evals) : /\ evals[i].patient_id = row.patient_id
                            /\ _parse_ts(evals[i].applied_at) < _parse_ts(row.applied_at) }

(* the priority of the evaluation applied immediately before the row, null
   for the oldest *)
PrecedingPriority(row) ==
    IF EarlierEvals(row) = {} THEN None
    ELSE LET k == CHOOSE i \in EarlierEvals(row) :
                      \A j \in EarlierEvals(row) :
                          _parse_ts(evals[j].applied_at) <= _parse_ts(evals[i].applied_at)
         IN  evals[k].priority

(* C16: every timeline entry shows its evaluation's own priority as
   toPriority and the priority of the chronologically preceding evaluation
   of the patient as fromPriority (null for the oldest), and consecutive
   entries chain: entry[i].fromPriority = entry[i+1].toPriority. *)
C16_TimelineTransitionsChain ==
    \A p \in PatientIds :
        LET tl == get_patient_triage_timeline(p)
            rows == RowsOf(evals, p)
        IN  /\ Len(tl) = Len(rows)
            /\ \A k \in 1..Len(rows) :
                  \E i \in 1..Len(tl) :
                      /\ tl[i].appliedAt = rows[k].applied_at
                      /\ tl[i].toPriority = rows[k].priority
                      /\ tl[i].fromPriority = PrecedingPriority(rows[k])
            /\ \A i \in 1..(Len(tl) - 1) : tl[i].fromPriority = tl[i + 1].toPriority
            /\ (tl # <<>>) => tl[Len(tl)].fromPriority = None

(* the routes whose re-triage reads the vitals from the stored observations *)
StoredStateRetriageOps ==
    {"run_patient_triage", "batch_triage_patients", "create_prescription", "update_patient"}

(* row is an observation of the patient with the greatest recorded_at instant *)
IsLatestObservation(row, pid) ==
    /\ row.patient_id = pid
    /\ \A i \in 1..Len(vitals) :
          vitals[i].patient_id = pid =>
              _parse_ts(vitals[i].recorded_at) <= _parse_ts(row.recorded_at)

(* C17: when a re-triage that assembles its inputs from stored state has
   called the engine for a patient with stored observations, the vitals it
   passed are those of an observation with the greatest recorded_at instant. *)
C17_RetriageUsesLatestObservation ==
    (resp.op \in StoredStateRetriageOps /\ resp.engine_calls > 0
            /\ RowsOf(vitals, resp.pid) # <<>>) =>
        \E i \in 1..Len(vitals) :
            /\ IsLatestObservation(vitals[i], resp.pid)
            /\ resp.engine_in.vitals = StoredVitalsDict(vitals[i])

(* a text of the form separator, seconds, optional fraction, then nothing,
   Z, or a sign with numeric hours and optional numeric minutes *)
NumericTz(tz) ==
    \/ (Len(tz) = 1 /\ IsDigit(tz[1]))
    \/ (Len(tz) = 3 /\ IsDigit(tz[1]) /\ tz[2] = ChColon /\ IsDigit(tz[3]))

Parseable(s) ==
    \E body \in StampBodies :
        \/ s = body
        \/ s = body \o <<ChZ>>
        \/ \E sg \in {ChPlus, ChMinus}, tz \in TzTexts : NumericTz(tz) /\ s = body \o <<sg>> \o tz

(* C18: _parse_ts raises for no stored text and gives datetime.min for every
   text that does not parse, a malformed timezone suffix included; the
   latest-vitals selection does not raise either, and a text that does not
   parse is not selected when the other one parses. *)
C18_ParseTsNeverRaises ==
    /\ stamps.pc = "parsed" =>
          /\ ~stamps.raised
          /\ ~Parseable(stamps.a) => stamps.value = DatetimeMin
    /\ stamps.pc = "selected" =>
          /\ ~stamps.raised
          /\ (Parseable(stamps.a) \/ Parseable(stamps.b)) => Parseable(stamps.winner)

(* C19: the evaluation rows are append-only: every step of every operation
   leaves the rows already stored as they are, in place, and at most adds
   rows after them. *)
C19_EvaluationsAppendOnly ==
    [][/\ Len(evals') >= Len(evals)
       /\ SubSeq(evals', 1, Len(evals)) = evals]_vars

C19_Witness ==
    /\ Len(evals) >= 2
    /\ resp.op \in {"record_vitals", "add_patient_vitals", "create_prescription", "update_patient"}
    /\ resp.triage = "set"
    /\ evals[1].patient_id = evals[2].patient_id

BothDone == \A i \in ReqIds : inflight.req # <<>> /\ inflight.req[i].pc = "done"

(* C20: when two concurrent vitals submissions for a patient have both
   completed, each has appended its own evaluation row, and the patient's
   priority, label and color are those of the evaluation written last. *)
C20_LastWrittenResultWins ==
    BothDone =>
        /\ Len(evals) = 3
        /\ \A i \in ReqIds :
              \E k \in 2..3 : /\ evals[k].input_vitals = inflight.req[i].vitals_dict
                              /\ evals[k].priority = inflight.req[i].result.priority
                              /\ evals[k].applied_at = inflight.req[i].applied_at
        /\ patients[1].priority = evals[3].priority
        /\ patients[1].priority_label = evals[3].priority_label
        /\ patients[1].priority_color = evals[3].priority_color

(* the rows a step has added for patient p *)
NewEvalsOf(p) ==
    { k \in (Len(evals) + 1)..Len(evals') : evals'[k].patient_id = p }

(* C21: a batch triage request either stores, for every patient that is not
   discharged and has a priority that is null or outside 1..4, the result of
   one engine call on the patient and one evaluation row with it, leaving
   every other patient alone; or, if a step of it fails, stores nothing. *)
C21_BatchTriageIsOneUnitOfWork ==
    [][(resp'.op = "batch_triage_patients" /\ clock' # clock) =>
          LET todo == { p \in DOMAIN patients : NeedsTriage(p) }
          IN  \/ /\ resp'.status = 200
                 /\ resp'.engine_calls = Cardinality(todo)
                 /\ Len(evals') = Len(evals) + Cardinality(todo)
                 /\ SubSeq(evals', 1, Len(evals)) = evals
                 /\ \A p \in todo :
                       /\ Cardinality(NewEvalsOf(p)) = 1
                       /\ \A k \in NewEvalsOf(p) :
                             /\ patients'[p].priority = evals'[k].priority
                             /\ patients'[p].priority_label = evals'[k].priority_label
                             /\ patients'[p].priority_color = evals'[k].priority_color
                       /\ patients'[p].status # "pending_triage"
                 /\ \A p \in DOMAIN patients \ todo : patients'[p] = patients[p]
              \/ /\ resp'.status = 500
                 /\ patients' = patients
                 /\ evals' = evals]_vars

C21_Witness ==
    /\ resp.op = "batch_triage_patients"
    /\ resp.status = 500
    /\ resp.engine_calls = 1
    /\ evals = <<>>
    /\ DOMAIN patients = BatchPatientIds

(* C22: two consecutive selections of a patient's latest vitals, with no
   insert between them, return the same observation, also when stored
   observations have equal or unparseable recorded_at values. *)
C22_LatestVitalsIdempotent ==
    stamps.pc = "twice" => stamps.again = stamps.winner

(* a commit of an automatic re-triage of patient 1 *)
RetriageCommitted ==
    \E i \in DOMAIN inflight.req :
        inflight.req[i].pc = "reloaded" /\ inflight'.req[i].pc = "done"

(* C23: every commit of an automatic re-triage leaves the patient's
   priority, label and color and the evaluation row it appends in
   agreement: the patient's fields do not change without the row of that
   priority, and the applied row is not stored with the patient's fields
   left at another value. *)
C23_RetriageCommitIsAtomic ==
    [][RetriageCommitted =>
          /\ Len(evals') = Len(evals) + 1
          /\ evals'[Len(evals')].is_applied
          /\ patients'[1].priority = evals'[Len(evals')].priority
          /\ patients'[1].priority_label = evals'[Len(evals')].priority_label
          /\ patients'[1].priority_color = evals'[Len(evals')].priority_color]_vars

(* the vitals give no SpO2, or one of at least 90 *)
Spo2AbsentOrNormal(v) ==
    \/ ~v.given
    \/ v.spo2.kind = "none"
    \/ (v.spo2.kind \in {"num", "str"} /\ v.spo2.num >= 90)

(* the first matching of the three severity lists, 3 when none matches *)
ThreeListPriority(complaint) ==
    IF AnyWordIn(Lower(complaint), CriticalKeywords) THEN 1
    ELSE IF AnyWordIn(Lower(complaint), EmergentKeywords) THEN 2
    ELSE 3

(* C24: with SpO2 absent or at least 90 the rule-based fallback gives the
   priority of the first matching list among critical (1), emergent (2) and
   urgent (3), and 3 to a complaint that matches none of the three, the
   empty complaint included. *)
C24_FallbackKeywordOrder ==
    (eng.pc = "mock" /\ Spo2AbsentOrNormal(eng.vitals)) =>
        /\ ~eng.result.raised
        /\ eng.result.priority = ThreeListPriority(eng.complaint)

(* C25: an evaluation row written for an engine evaluation holds, as its
   input snapshot, the complaint and the vitals that were passed to the
   engine for that evaluation. *)
C25_SnapshotIsEngineInput ==
    [][(clock' # clock /\ resp'.engine_calls > 0 /\ resp'.status \in {200, 201}) =>
          \A k \in NewEvalsOf(resp'.pid) :
              /\ evals'[k].input_complaint = resp'.engine_in.complaint
              /\ evals'[k].input_vitals = resp'.engine_in.vitals]_vars

(* the handlers that evaluate or set a patient's triage *)
TriageOps ==
    { "record_vitals", "add_patient_vitals", "create_prescription", "update_patient",
      "run_patient_triage", "triage_run_patient_triage", "batch_triage_patients",
      "shift_patient_triage" }

(* C26: no triage operation (automatic re-triage, run or re-run through
   either triage endpoint, batch triage, manual shift) moves a discharged
   or transferred patient back to active or pending_triage. *)
C26_StatusOnlyMovesForward ==
    [][(clock' # clock /\ resp'.op \in TriageOps) =>
          \A p \in DOMAIN patients :
              patients[p].status \in {"discharged", "transferred_to_opd"} =>
                  patients'[p].status \notin {"active", "pending_triage"}]_vars

(* priority, label and color agree under the fixed mapping of 1..4 *)
MatchesMapping(x) ==
    /\ x.priority \in 1..4
    /\ x.priority_label = LabelOf(x.priority)
    /\ x.priority_color = ColorOf(x.priority)

(* C27: every patient with a non-null priority and every evaluation row
   has the priority_label and priority_color of its priority under the
   mapping 1 -> L1 - Critical/red, 2 -> L2 - Emergent/orange,
   3 -> L3 - Urgent/yellow, 4 -> L4 - Non-Urgent/green. *)
C27_LabelAndColorMatchPriority ==
    /\ \A p \in DOMAIN patients :
           (Registered(p) /\ patients[p].priority # None) => MatchesMapping(patients[p])
    /\ \A i \in 1..Len(evals) : MatchesMapping(evals[i])

(* C28: each bed has at most one BedAssignment with released_at unset, so
   release_bed finds zero or one open assignment and does not fail on the
   lookup. *)
C28_OneOpenAssignmentPerBed ==
    /\ \A b \in DOMAIN beds.bed : Cardinality(OpenAssignments(beds, b)) <= 1
    /\ ~(resp.op = "release_bed" /\ resp.arg.kind = "MultipleResultsFound")

(* C29: no two patients of the tenant hold the same patient_id, also when
   registrations of the tenant run at the same time. *)
C29_PatientIdsUnique ==
    \A i, j \in 1..Len(registry.patient_ids) :
        i # j => registry.patient_ids[i] # registry.patient_ids[j]

(* the OTP most recently mailed to the email is unexpired and its row has
   not been consumed by a completed reset *)
LatestOtpUsable(email, otp) ==
    /\ reset_tokens.mailbox # <<>>
    /\ reset_tokens.mailbox[Len(reset_tokens.mailbox)] = [to |-> email, otp |-> otp]
    /\ LET row == reset_tokens.rows[Len(reset_tokens.rows)]
       IN  /\ row.email = email
           /\ ~row.is_used
           /\ clock <= FromIso(row.otp_expires_at)

(* C30: after forgot_password has been called any number of times for an
   existing email, verify_otp called with the most recently issued,
   unexpired OTP succeeds and returns a reset token. *)
C30_LatestOtpVerifies ==
    [][\A email \in UserEmails, otp \in OtpValues :
          (LatestOtpUsable(email, otp) /\ verify_otp(email, otp)) =>
              /\ resp'.status = 200
              /\ resp'.arg.kind = "num"]_vars

====
